---- MODULE Spec2Model ----
(***************************************************************************)
(* State-machine model of hydrz/grab: the range-parallel chunk engine      *)
(* (chunkDownloader), the dispatcher (Downloader), the progress tracker    *)
(* (progress) and the HLS sequential reader (m3U8Reader).                  *)
(*                                                                         *)
(* Errors are modelled by the tokens their message contains (a set of      *)
(* strings): fmt.Errorf("...: %w", err) is the union of the new tokens and *)
(* err, and strings.Contains(err.Error(), t) is t \in err.  The nil error  *)
(* is the empty set.                                                       *)
(***************************************************************************)
EXTENDS Integers, Sequences, FiniteSets, TLC

\* ------------------------------------------------------------------ bounds
TotalSize == 3      \* cd.totalSize: the size N the origin reports
ChunkSize == 2      \* option.ChunkSize
Threads == 2        \* option.Threads
MaxFaults == 1      \* responses other than a clean 206 the origin may give
MaxRetryCount == 2  \* option.RetryCount ranges over 0..MaxRetryCount
MaxMedias == 2      \* len(medias) ranges over 1..MaxMedias
MaxStreams == 2     \* len(media.Streams) ranges over 0..MaxStreams
ProgTotal == 3      \* p.Total
Adders == 2         \* goroutines that call Add on one tracker
MaxTicks == 3       \* advances of the clock
Epoch == 1000       \* the clock when the tracker is created
MaxSegments == 2    \* len(r.segments) ranges over 1..MaxSegments
MaxHlsFaults == 1   \* segment requests that may fail
MaxOtherStreams == 1 \* len(media.Streams) - 1 when the filters are built
MaxTail == 3        \* characters of a filename after its run of letters
MaxPlanSize == 6    \* cd.totalSize and cd.chunkSize when a plan alone is built
MaxFileSize == 2    \* sizes of the final file and declared sizes of a stream

\* ------------------------------------------------------- program constants
maxRetries == 3     \* downloadChunkWithRetry: extra attempts per chunk
MaxAgeDays == 7     \* loadProgress: a sidecar older than this is rejected
UpdateInterval == 100 \* progress.Add: milliseconds between two callbacks
BlockSize == 16     \* aes.BlockSize
MaxPrefetch == 10   \* processMediaPlaylist: the cap of prefetchSize
MaxFilenameLen == 255 \* SanitizeFilename: the length a name is cut to
MinRetries == 3     \* processMediaPlaylist: the floor of r.maxRetries

VARIABLES
    \* --- chunkDownloader
    chunks,         \* cd.chunks: the in-memory plan
    part,           \* the .part file: [exists, data]
    sidecar,        \* the .progress file: [state, Chunks, TotalSize, URL, Age]
    chunkChan,      \* the closed channel of queued chunk indices
    semaphore,      \* slots of the semaphore in use
    workers,        \* per worker goroutine: pc and downloadChunkDirect locals
    errors,         \* cd.errors
    ctxDone,        \* cd.ctx is cancelled
    saverPc,        \* progressSaver goroutine
    saverLinked,    \* the file saveProgress created is still the .progress file
    progressDone,   \* close(progressDone) has run
    mainPc,         \* position of Download()
    result,         \* [done, err]: what Download() returned
    progCur,        \* cd.progress.Current
    faults,         \* faulty responses given so far
    url,            \* the digit tokens the stream URL contains
    wire,           \* the last range request a worker sent: [chunk, from, to]
    \* --- Downloader
    option,         \* d.ctx.option
    medias,         \* len(media.Streams) of each media handed to Download
    dPc,            \* position of Download / downloadMedia / downloadStreamWithRetry
    mi,             \* index of the media being downloaded
    si,             \* index of the stream being downloaded
    stream,         \* the stream being downloaded: [Type, engine]
    attempt,        \* downloadStreamWithRetry: attempt
    lastErr,        \* downloadStreamWithRetry: lastErr
    partState,      \* the stream's .part file: absent, empty, partial, holes, full
    finalState,     \* the stream's final file: absent, holes, full
    streamRet,      \* how downloadStreamWithRetry last returned
    started,        \* downloadStream / downloadSingleThreadNoRange calls begun for the stream
    observed,       \* the retry loop has seen a cancellation
    fallbacks,      \* downloadStreamWithRetry: its calls of downloadSingleThreadNoRange
    tried,          \* per stream of the media in hand: calls of downloadStreamWithRetry, outcome
    dResult,        \* [done, err]: what Download(medias) returned
    \* --- progress
    Current,        \* p.Current
    lastUpdate,     \* p.lastUpdate
    now,            \* time.Now().UnixMilli()
    adders,         \* per goroutine inside Add: pc and locals
    delivered,      \* the values of current handed to the callback, in order
    finished,       \* Finish has run
    \* --- m3U8Reader
    segments,       \* r.segments: [Key, Retries, data], data = [ptr, bytes]
    currentIdx,     \* r.currentIdx
    currentReader,  \* r.currentReader: nil, or drained (all its bytes were read)
    readPc,         \* position of Read: [pc, open, dl]
    closed,         \* r.closed
    closePc,        \* position of Close
    errorChan,      \* errors buffered in r.errorChan (capacity 1)
    segmentChan,    \* indices buffered in r.segmentChan
    coord,          \* prefetchCoordinator: [next, done]
    hw,             \* per downloadWorker goroutine: [pc, index, attempt]
    tasks,          \* downloadSegmentAsync goroutines: [index, pc, attempt]
    spawners,       \* goroutines of triggerPrefetch: [next, end]
    output,         \* the bytes the calls of Read have returned, in order
    eof,            \* a Read has returned io.EOF
    readErr,        \* a Read has returned another error
    readsAfterClose,\* how the calls of Read made after Close returned ended
    getAfterClose,  \* such a Read has requested a segment
    hlsFaults,      \* failed segment requests so far
    keyGets,        \* GET requests of an encryption key so far
    \* --- one call of a function without state
    fnPc,           \* "off", "call" (arguments chosen) or "done" (it returned)
    fnIn,           \* the function and its arguments
    fnOut           \* what it returned

chunkVars == <<chunks, part, sidecar, chunkChan, semaphore, workers, errors,
               ctxDone, saverPc, saverLinked, progressDone, mainPc, result,
               progCur, faults, url, wire>>

dispVars == <<option, medias, dPc, mi, si, stream, attempt, lastErr, partState,
              finalState, streamRet, started, observed, fallbacks, tried, dResult>>

progVars == <<Current, lastUpdate, now, adders, delivered, finished>>

hlsVars == <<segments, currentIdx, currentReader, readPc, closed, closePc,
             errorChan, segmentChan, coord, hw, tasks, spawners, output, eof,
             readErr, readsAfterClose, getAfterClose, hlsFaults, keyGets>>

fnVars == <<fnPc, fnIn, fnOut>>

vars == <<chunkVars, dispVars, progVars, hlsVars, fnVars>>

\* what the actions of one component leave alone
notChunk == <<dispVars, progVars, hlsVars, fnVars>>

\* ------------------------------------------------------------------ errors
Nil == {}
ErrCanceled == {"context canceled"}
HttpError(status) == {"HTTP error", status}
\* resty returns a *url.Error, whose message quotes the request URL
RequestError(cause) == {"failed to execute request"} \cup url \cup cause

nonRetryableErrors ==
    {"404", "401", "403", "410", "invalid url", "no such host", "malformed",
     "context canceled", "context deadline exceeded"}

isNonRetryableError(err) == \E t \in nonRetryableErrors : t \in err

\* ------------------------------------------------------------------ origin
\* The byte the origin serves at offset i (0-based); 0 is an unwritten hole.
OriginByte(i) == i + 1
Origin == [i \in 1..TotalSize |-> OriginByte(i - 1)]
ThisURL == "u"

\* --------------------------------------------------------------- the plan
\* a plan whose last chunk keeps the full chunk size
initializeChunksUnclamped(totalSize, chunkSize) ==
    LET numChunks == (totalSize + chunkSize - 1) \div chunkSize
    IN [i \in 1..numChunks |->
          LET start == (i - 1) * chunkSize
              end == start + chunkSize - 1
          IN [Index |-> i - 1, Start |-> start, End |-> end, Size |-> end - start + 1,
              Downloaded |-> 0, Completed |-> FALSE, Retries |-> 0]]

\* initializeChunks for a chunkDownloader with this totalSize and chunkSize
initializeChunksOf(totalSize, chunkSize) ==
    LET numChunks == (totalSize + chunkSize - 1) \div chunkSize
    IN [i \in 1..numChunks |->
          LET start == (i - 1) * chunkSize
              end0 == start + chunkSize - 1
              end == IF end0 >= totalSize THEN totalSize - 1 ELSE end0
          IN [Index |-> i - 1, Start |-> start, End |-> end, Size |-> end - start + 1,
              Downloaded |-> 0, Completed |-> FALSE, Retries |-> 0]]

initializeChunks == initializeChunksOf(TotalSize, ChunkSize)

RECURSIVE SumSize(_)
SumSize(cs) == IF cs = <<>> THEN 0 ELSE Head(cs).Size + SumSize(Tail(cs))

validateChunks(cs) ==
    /\ Len(cs) > 0
    /\ \A i \in 1..Len(cs) :
          /\ ~(cs[i].Start < 0 \/ cs[i].End < cs[i].Start)
          /\ ~(cs[i].Downloaded < 0 \/ cs[i].Downloaded > cs[i].Size)
    /\ SumSize(cs) = TotalSize

loadProgress(sc) ==
    /\ sc.state = "plan"
    /\ Len(sc.Chunks) > 0
    /\ sc.TotalSize = TotalSize
    /\ sc.URL = ThisURL
    /\ ~(sc.Age > MaxAgeDays)

allChunksCompleted == \A i \in 1..Len(chunks) : chunks[i].Completed

\* ------------------------------------------------------------------ files
\* no request was sent yet
NoRequest == [chunk |-> 0, attempt |-> 0, from |-> 0, to |-> 0]

NoSidecar == [state |-> "absent", Chunks |-> <<>>, TotalSize |-> 0,
              URL |-> ThisURL, Age |-> 0]

Truncate(data, n) == [i \in 1..n |-> IF i <= Len(data) THEN data[i] ELSE 0]

\* output.WriteAt(<<b>>, off): a write past the end extends the file with zeros
WriteAt(data, off, b) ==
    LET n == IF off + 1 > Len(data) THEN off + 1 ELSE Len(data)
    IN [i \in 1..n |-> IF i = off + 1 THEN b
                       ELSE IF i <= Len(data) THEN data[i] ELSE 0]

preallocateFile(f) ==
    IF f.exists /\ Len(f.data) = TotalSize THEN f
    ELSE [exists |-> TRUE,
          data |-> Truncate(IF f.exists THEN f.data ELSE <<>>, TotalSize)]

\* ------------------------------------------------- what is on disk before
\* The .part contents an earlier run leaves behind for a plan: the bytes of
\* every [Start, Start+Downloaded) are written, the rest are holes.
PartOfPlan(cs) ==
    [i \in 1..TotalSize |->
        IF \E c \in 1..Len(cs) :
              /\ cs[c].Start <= i - 1
              /\ i - 1 < cs[c].Start + cs[c].Downloaded
        THEN Origin[i] ELSE 0]

\* Plans an interrupted earlier run can have saved (saveProgress snapshots).
PlanFirstDone ==
    [i \in 1..Len(initializeChunks) |->
        IF i = 1 THEN [initializeChunks[i] EXCEPT !.Downloaded = initializeChunks[i].Size,
                                                  !.Completed = TRUE]
        ELSE IF i = 2 THEN [initializeChunks[i] EXCEPT !.Downloaded = 1]
        ELSE initializeChunks[i]]

PlanAllWritten ==
    [i \in 1..Len(initializeChunks) |->
        [initializeChunks[i] EXCEPT !.Downloaded = initializeChunks[i].Size,
                                    !.Completed = (i = 1)]]

\* the first chunk was interrupted after its first byte
PlanFirstPartial ==
    [i \in 1..Len(initializeChunks) |->
        IF i = 1 THEN [initializeChunks[i] EXCEPT !.Downloaded = 1]
        ELSE initializeChunks[i]]

SavedPlan(cs, total, u, age) ==
    [state |-> "plan", Chunks |-> cs, TotalSize |-> total, URL |-> u, Age |-> age]

DiskStates ==
    {[sidecar |-> NoSidecar, part |-> [exists |-> FALSE, data |-> <<>>]]}
    \cup {[sidecar |-> SavedPlan(cs, TotalSize, ThisURL, 0),
           part |-> [exists |-> TRUE, data |-> PartOfPlan(cs)]]
          : cs \in {PlanFirstDone, PlanAllWritten, PlanFirstPartial}}
    \cup {[sidecar |-> SavedPlan(PlanFirstDone, TotalSize, ThisURL, MaxAgeDays + 1),
           part |-> [exists |-> TRUE, data |-> PartOfPlan(PlanFirstDone)]],
          [sidecar |-> SavedPlan(PlanFirstDone, TotalSize, "other", 0),
           part |-> [exists |-> TRUE, data |-> PartOfPlan(PlanFirstDone)]],
          [sidecar |-> SavedPlan(PlanFirstDone, TotalSize + 1, ThisURL, 0),
           part |-> [exists |-> TRUE, data |-> PartOfPlan(PlanFirstDone) \o <<0>>]]}

\* ------------------------------------------------------------- the engine
Workers == 1..Threads

IdleWorker == [pc |-> "off", chunk |-> 0, attempt |-> 0, offset |-> 0,
               chunkDownloaded |-> 0, body |-> <<>>]

Running == [done |-> FALSE, err |-> Nil]
Returned(err) == [done |-> TRUE, err |-> err]

\* downloadMedia: no stream of media.Streams was looked at yet
NoTries == [s \in 1..MaxStreams |-> [calls |-> 0, outcome |-> "none"]]

\* no Download(medias) is running
IdleDisp ==
    /\ option = [IgnoreErrors |-> FALSE, RetryCount |-> 0, NoSkipExisting |-> FALSE,
                 ChunkSize |-> ChunkSize, Threads |-> Threads, Convert |-> FALSE]
    /\ medias = <<>>
    /\ dPc = "off"
    /\ mi = 0
    /\ si = 0
    /\ stream = [Type |-> "none", engine |-> "none"]
    /\ attempt = 0
    /\ lastErr = Nil
    /\ partState = "absent"
    /\ finalState = "absent"
    /\ streamRet = "none"
    /\ started = 0
    /\ observed = FALSE
    /\ fallbacks = 0
    /\ tried = NoTries
    /\ dResult = Running

\* no function is being called
IdleFn ==
    /\ fnPc = "off"
    /\ fnIn = [fn |-> "none"]
    /\ fnOut = [fn |-> "none"]

\* no progress tracker with a callback exists
IdleProg ==
    /\ Current = 0
    /\ lastUpdate = 0
    /\ now = 0
    /\ adders = <<>>
    /\ delivered = <<>>
    /\ finished = FALSE

\* no m3U8Reader exists
IdleHls ==
    /\ segments = <<>>
    /\ currentIdx = 0
    /\ currentReader = "nil"
    /\ readPc = [pc |-> "off", open |-> 0, dl |-> 0]
    /\ closed = FALSE
    /\ closePc = "off"
    /\ errorChan = 0
    /\ segmentChan = <<>>
    /\ coord = [next |-> 0, done |-> TRUE]
    /\ hw = <<>>
    /\ tasks = {}
    /\ spawners = {}
    /\ output = <<>>
    /\ eof = FALSE
    /\ readErr = FALSE
    /\ readsAfterClose = {}
    /\ getAfterClose = FALSE
    /\ hlsFaults = 0
    /\ keyGets = 0

InitChunkOn(disks) ==
    /\ \E d \in disks : sidecar = d.sidecar /\ part = d.part
    /\ url \in {{}, {"404"}}
    /\ chunks = <<>>
    /\ chunkChan = <<>>
    /\ semaphore = 0
    /\ workers = [w \in Workers |-> IdleWorker]
    /\ errors = <<>>
    /\ ctxDone = FALSE
    /\ saverPc = "off"
    /\ saverLinked = FALSE
    /\ progressDone = FALSE
    /\ mainPc = "start"
    /\ result = Running
    /\ progCur = 0
    /\ faults = 0
    /\ wire = NoRequest
    /\ IdleDisp
    /\ IdleProg
    /\ IdleHls
    /\ IdleFn

InitChunk == InitChunkOn(DiskStates)

RECURSIVE InitialProgress(_)
InitialProgress(cs) ==
    IF cs = <<>> THEN 0
    ELSE (IF Head(cs).Completed THEN Head(cs).Size ELSE Head(cs).Downloaded)
         + InitialProgress(Tail(cs))

RECURSIVE Incomplete(_, _)
Incomplete(cs, i) ==
    IF i > Len(cs) THEN <<>>
    ELSE (IF cs[i].Completed THEN <<>> ELSE <<i>>) \o Incomplete(cs, i + 1)

\* Download(), up to the start of the goroutines.
DownloadStart ==
    /\ mainPc = "start"
    /\ LET loaded == IF loadProgress(sidecar) THEN sidecar.Chunks
                     ELSE initializeChunks
           plan == IF validateChunks(loaded) THEN loaded ELSE initializeChunks
       IN \/ /\ part' = preallocateFile(part)
             /\ chunks' = plan
             /\ progCur' = progCur + InitialProgress(plan)
             /\ chunkChan' = Incomplete(plan, 1)
             /\ workers' = [w \in Workers |-> [IdleWorker EXCEPT !.pc = "recv"]]
             /\ saverPc' = "select"
             /\ mainPc' = "wait"
             /\ UNCHANGED result
          \/ \* preallocateFile or os.OpenFile fails
             /\ chunks' = plan
             /\ mainPc' = "done"
             /\ result' = Returned({"failed to preallocate file"})
             /\ UNCHANGED <<part, progCur, chunkChan, workers, saverPc>>
    /\ UNCHANGED <<sidecar, semaphore, errors, ctxDone, saverLinked,
                   progressDone, faults, url, wire>>
    /\ UNCHANGED notChunk

\* worker(): what follows the return of downloadChunkWithRetry
WorkerReturn(w, err) ==
    /\ errors' = IF err = Nil THEN errors ELSE Append(errors, {"chunk"} \cup err)
    /\ semaphore' = semaphore - 1
    /\ workers' = [workers EXCEPT ![w] = [IdleWorker EXCEPT !.pc = "recv"]]

\* downloadChunkWithRetry: what follows a failed downloadChunkDirect
AttemptFailed(w, err) ==
    LET c == workers[w].chunk
    IN /\ chunks' = [chunks EXCEPT ![c].Retries = @ + 1]
       /\ IF isNonRetryableError(err)
          THEN WorkerReturn(w, err)
          ELSE IF workers[w].attempt + 1 > maxRetries
          THEN WorkerReturn(w, {"chunk download failed after attempts"})
          ELSE /\ workers' = [workers EXCEPT ![w].pc = "top",
                                             ![w].attempt = @ + 1,
                                             ![w].body = <<>>]
               /\ UNCHANGED <<errors, semaphore>>

\* worker(): receive from chunkChan, then the select on ctx.Done / semaphore
WorkerRecv(w) ==
    /\ workers[w].pc = "recv"
    /\ IF chunkChan = <<>>
       THEN /\ workers' = [workers EXCEPT ![w].pc = "exit"]
            /\ UNCHANGED <<chunkChan, semaphore>>
       ELSE /\ chunkChan' = Tail(chunkChan)
            /\ \/ /\ ctxDone
                  /\ workers' = [workers EXCEPT ![w].pc = "exit"]
                  /\ UNCHANGED semaphore
               \/ /\ semaphore < Threads
                  /\ semaphore' = semaphore + 1
                  /\ workers' = [workers EXCEPT ![w].pc = "top",
                                                ![w].chunk = Head(chunkChan),
                                                ![w].attempt = 0]
    /\ UNCHANGED <<chunks, part, sidecar, errors, ctxDone, saverPc, saverLinked,
                   progressDone, mainPc, result, progCur, faults, url, wire>>
    /\ UNCHANGED notChunk

\* downloadChunkWithRetry: the top of the loop
WorkerTop(w) ==
    /\ workers[w].pc = "top"
    /\ IF ctxDone
       THEN WorkerReturn(w, ErrCanceled)
       ELSE /\ workers' = [workers EXCEPT ![w].pc =
                              IF workers[w].attempt > 0 THEN "backoff" ELSE "direct"]
            /\ UNCHANGED <<errors, semaphore>>
    /\ UNCHANGED <<chunks, part, sidecar, chunkChan, ctxDone, saverPc, saverLinked,
                   progressDone, mainPc, result, progCur, faults, url, wire>>
    /\ UNCHANGED notChunk

\* downloadChunkWithRetry: the backoff select on ctx.Done / time.After
WorkerBackoff(w) ==
    /\ workers[w].pc = "backoff"
    /\ \/ /\ ctxDone
          /\ WorkerReturn(w, ErrCanceled)
       \/ /\ workers' = [workers EXCEPT ![w].pc = "direct"]
          /\ UNCHANGED <<errors, semaphore>>
    /\ UNCHANGED <<chunks, part, sidecar, chunkChan, ctxDone, saverPc, saverLinked,
                   progressDone, mainPc, result, progCur, faults, url, wire>>
    /\ UNCHANGED notChunk

\* The locks of cd.mu: saveProgress holds the read lock from os.Create to the
\* end of Encode, so no worker takes the write lock meanwhile.
CanLock == saverPc # "encode"

\* Bodies the origin can answer a GET "Range: bytes=rangeStart-end" with.
RangeBody(rangeStart, end) == SubSeq(Origin, rangeStart + 1, end + 1)
FullBody == Origin

\* downloadChunkDirect: the rangeStart test and the GET
RangeRequest(w, rangeStart) ==
    /\ workers[w].pc = "direct"
    /\ LET c == workers[w].chunk
       IN IF rangeStart > chunks[c].End
          THEN /\ chunks' = [chunks EXCEPT ![c].Completed = TRUE,
                                           ![c].Downloaded = chunks[c].Size]
               /\ WorkerReturn(w, Nil)
               /\ UNCHANGED <<faults, wire>>
          ELSE IF ctxDone
          THEN /\ AttemptFailed(w, RequestError(ErrCanceled))
               /\ UNCHANGED <<faults, wire>>
          ELSE /\ wire' = [chunk |-> c, attempt |-> workers[w].attempt,
                           from |-> rangeStart, to |-> chunks[c].End]
               /\ \/ \* 206 Partial Content
                     /\ workers' = [workers EXCEPT
                                       ![w].pc = "read",
                                       ![w].offset = rangeStart,
                                       ![w].chunkDownloaded = chunks[c].Downloaded,
                                       ![w].body = RangeBody(rangeStart, chunks[c].End)]
                     /\ UNCHANGED <<chunks, errors, semaphore, faults>>
                  \/ \* 206 Partial Content for a shorter range than the one asked
                     /\ faults < MaxFaults
                     /\ faults' = faults + 1
                     /\ \E n \in 0..(chunks[c].End - rangeStart) :
                           workers' = [workers EXCEPT
                                          ![w].pc = "read",
                                          ![w].offset = rangeStart,
                                          ![w].chunkDownloaded = chunks[c].Downloaded,
                                          ![w].body = SubSeq(RangeBody(rangeStart,
                                                                       chunks[c].End), 1, n)]
                     /\ UNCHANGED <<chunks, errors, semaphore>>
                  \/ \* 200 OK: the origin ignored the Range header
                     /\ faults < MaxFaults
                     /\ faults' = faults + 1
                     /\ workers' = [workers EXCEPT
                                       ![w].pc = "read",
                                       ![w].offset = rangeStart,
                                       ![w].chunkDownloaded = chunks[c].Downloaded,
                                       ![w].body = FullBody]
                     /\ UNCHANGED <<chunks, errors, semaphore>>
                  \/ \* any other status
                     /\ faults < MaxFaults
                     /\ faults' = faults + 1
                     /\ \E status \in {"404", "416", "500"} :
                           AttemptFailed(w, HttpError(status))
                  \/ \* the transport fails
                     /\ faults < MaxFaults
                     /\ faults' = faults + 1
                     /\ AttemptFailed(w, RequestError({"connection refused"}))
    /\ UNCHANGED <<part, sidecar, chunkChan, ctxDone, saverPc, saverLinked,
                   progressDone, mainPc, result, progCur, url>>
    /\ UNCHANGED notChunk

\* a downloadChunkDirect that asks for the chunk from its start
WorkerDirectFromStart(w) == RangeRequest(w, chunks[workers[w].chunk].Start)

\* downloadChunkDirect: rangeStart := chunk.Start + chunk.Downloaded
WorkerDirect(w) ==
    RangeRequest(w, chunks[workers[w].chunk].Start
                        + chunks[workers[w].chunk].Downloaded)

\* downloadChunkDirect: one turn of the read loop, up to and including WriteAt
WorkerRead(w) ==
    /\ workers[w].pc = "read"
    /\ LET c == workers[w].chunk
       IN IF ctxDone
          THEN /\ AttemptFailed(w, ErrCanceled)
               /\ UNCHANGED <<part, faults>>
          ELSE IF workers[w].body = <<>>
          THEN \* io.EOF: chunk.Completed = chunk.Downloaded >= chunk.Size
               /\ CanLock
               /\ chunks' = [chunks EXCEPT ![c].Completed =
                                (chunks[c].Downloaded >= chunks[c].Size)]
               /\ WorkerReturn(w, Nil)
               /\ UNCHANGED <<part, faults>>
          ELSE \/ \* nr > 0: the buffer is written at the absolute offset
                  /\ part' = [part EXCEPT !.data =
                                 WriteAt(@, workers[w].offset, Head(workers[w].body))]
                  /\ workers' = [workers EXCEPT
                                    ![w].pc = "update",
                                    ![w].offset = @ + 1,
                                    ![w].chunkDownloaded = @ + 1,
                                    ![w].body = Tail(@)]
                  /\ UNCHANGED <<chunks, errors, semaphore, faults>>
               \/ \* the body read fails
                  /\ faults < MaxFaults
                  /\ faults' = faults + 1
                  /\ AttemptFailed(w, {"failed to read response"})
                  /\ UNCHANGED part
               \/ \* WriteAt fails
                  /\ faults < MaxFaults
                  /\ faults' = faults + 1
                  /\ AttemptFailed(w, {"failed to write to file"})
                  /\ UNCHANGED part
    /\ UNCHANGED <<sidecar, chunkChan, ctxDone, saverPc, saverLinked,
                   progressDone, mainPc, result, progCur, url, wire>>
    /\ UNCHANGED notChunk

\* downloadChunkDirect: chunk.Downloaded and the progress delta, under cd.mu
WorkerUpdate(w) ==
    /\ workers[w].pc = "update"
    /\ CanLock
    /\ LET c == workers[w].chunk
           progressDelta == workers[w].chunkDownloaded - chunks[c].Downloaded
       IN /\ chunks' = [chunks EXCEPT ![c].Downloaded = workers[w].chunkDownloaded]
          /\ progCur' = IF progressDelta > 0 THEN progCur + progressDelta ELSE progCur
    /\ workers' = [workers EXCEPT ![w].pc = "read"]
    /\ UNCHANGED <<part, sidecar, chunkChan, semaphore, errors, ctxDone, saverPc,
                   saverLinked, progressDone, mainPc, result, faults, url, wire>>
    /\ UNCHANGED notChunk

\* progressSaver: the ticker case; saveProgress up to os.Create
SaverTick ==
    /\ saverPc = "select"
    /\ saverPc' = "encode"
    /\ sidecar' = [NoSidecar EXCEPT !.state = "empty"]
    /\ saverLinked' = TRUE
    /\ UNCHANGED <<chunks, part, chunkChan, semaphore, workers, errors, ctxDone,
                   progressDone, mainPc, result, progCur, faults, url, wire>>
    /\ UNCHANGED notChunk

\* saveProgress: encoder.Encode(state)
SaverEncode ==
    /\ saverPc = "encode"
    /\ saverPc' = "select"
    /\ sidecar' = IF saverLinked THEN SavedPlan(chunks, TotalSize, ThisURL, 0)
                  ELSE sidecar
    /\ saverLinked' = FALSE
    /\ UNCHANGED <<chunks, part, chunkChan, semaphore, workers, errors, ctxDone,
                   progressDone, mainPc, result, progCur, faults, url, wire>>
    /\ UNCHANGED notChunk

\* progressSaver: the done case
SaverExit ==
    /\ saverPc = "select"
    /\ progressDone
    /\ saverPc' = "exit"
    /\ UNCHANGED <<chunks, part, sidecar, chunkChan, semaphore, workers, errors,
                   ctxDone, saverLinked, progressDone, mainPc, result, progCur,
                   faults, url, wire>>
    /\ UNCHANGED notChunk

\* a Download() that returns from wg.Wait() and leaves progressDone open
DownloadWaitNoClose ==
    /\ mainPc = "wait"
    /\ \A w \in Workers : workers[w].pc = "exit"
    /\ mainPc' = "check"
    /\ UNCHANGED <<chunks, part, sidecar, chunkChan, semaphore, workers, errors,
                   ctxDone, saverPc, saverLinked, progressDone, result, progCur,
                   faults, url, wire>>
    /\ UNCHANGED notChunk

\* Download(): wg.Wait() and close(progressDone)
DownloadWait ==
    /\ mainPc = "wait"
    /\ \A w \in Workers : workers[w].pc = "exit"
    /\ progressDone' = TRUE
    /\ mainPc' = "check"
    /\ UNCHANGED <<chunks, part, sidecar, chunkChan, semaphore, workers, errors,
                   ctxDone, saverPc, saverLinked, result, progCur, faults, url, wire>>
    /\ UNCHANGED notChunk

\* a Download() that looks at the recorded errors before the context
DownloadCheckErrorsFirst ==
    /\ mainPc = "check"
    /\ IF Len(errors) > 0
       THEN mainPc' = "done"
            /\ result' = Returned({"chunk download failed"} \cup errors[1])
       ELSE IF ctxDone
       THEN mainPc' = "done" /\ result' = Returned(ErrCanceled)
       ELSE IF ~allChunksCompleted
       THEN mainPc' = "done" /\ result' = Returned({"not all chunks completed"})
       ELSE mainPc' = "remove" /\ UNCHANGED result
    /\ UNCHANGED <<chunks, part, sidecar, chunkChan, semaphore, workers, errors,
                   ctxDone, saverPc, saverLinked, progressDone, progCur, faults, url, wire>>
    /\ UNCHANGED notChunk

\* Download(): cancellation, recorded errors, allChunksCompleted
DownloadCheck ==
    /\ mainPc = "check"
    /\ IF ctxDone
       THEN mainPc' = "done" /\ result' = Returned(ErrCanceled)
       ELSE IF Len(errors) > 0
       THEN mainPc' = "done"
            /\ result' = Returned({"chunk download failed"} \cup errors[1])
       ELSE IF ~allChunksCompleted
       THEN mainPc' = "done" /\ result' = Returned({"not all chunks completed"})
       ELSE mainPc' = "remove" /\ UNCHANGED result
    /\ UNCHANGED <<chunks, part, sidecar, chunkChan, semaphore, workers, errors,
                   ctxDone, saverPc, saverLinked, progressDone, progCur, faults, url, wire>>
    /\ UNCHANGED notChunk

\* Download(): os.Remove(cd.outputPath + ".progress"); return nil
DownloadRemove ==
    /\ mainPc = "remove"
    /\ sidecar' = NoSidecar
    /\ saverLinked' = FALSE
    /\ mainPc' = "done"
    /\ result' = Returned(Nil)
    /\ UNCHANGED <<chunks, part, chunkChan, semaphore, workers, errors, ctxDone,
                   saverPc, progressDone, progCur, faults, url, wire>>
    /\ UNCHANGED notChunk

\* The caller cancels the context while Download() runs.
Cancel ==
    /\ mainPc \in {"wait", "check", "remove"}
    /\ ~ctxDone
    /\ ctxDone' = TRUE
    /\ UNCHANGED <<chunks, part, sidecar, chunkChan, semaphore, workers, errors,
                   saverPc, saverLinked, progressDone, mainPc, result, progCur,
                   faults, url, wire>>
    /\ UNCHANGED notChunk

NextChunk ==
    \/ DownloadStart
    \/ \E w \in Workers : WorkerRecv(w)
    \/ \E w \in Workers : WorkerTop(w)
    \/ \E w \in Workers : WorkerBackoff(w)
    \/ \E w \in Workers : WorkerDirect(w)
    \/ \E w \in Workers : WorkerRead(w)
    \/ \E w \in Workers : WorkerUpdate(w)
    \/ SaverTick
    \/ SaverEncode
    \/ SaverExit
    \/ DownloadWait
    \/ DownloadCheck
    \/ DownloadRemove
    \/ Cancel

SpecChunk == InitChunk /\ [][NextChunk]_vars

\* a download that finds neither a sidecar nor a .part file
InitFresh == InitChunk /\ url = {} /\ sidecar = NoSidecar
SpecFresh == InitFresh /\ [][NextChunk]_vars

\* a download that finds a sidecar it accepts
InitResume ==
    InitChunk /\ url = {} /\ loadProgress(sidecar) /\ validateChunks(sidecar.Chunks)
SpecResume == InitResume /\ [][NextChunk]_vars

\* a download that finds a sidecar it accepts beside a .part that is not the
\* one the sidecar was written for: removed, cut short, or written anew by the
\* single-stream engine (os.Create and a body that broke off, or the body of
\* another resource)
StaleParts ==
    {[exists |-> FALSE, data |-> <<>>],
     [exists |-> TRUE, data |-> <<>>],
     [exists |-> TRUE, data |-> <<OriginByte(0)>>],
     [exists |-> TRUE, data |-> [i \in 1..TotalSize |-> 99]]}
StaleDiskStates ==
    {[sidecar |-> SavedPlan(cs, TotalSize, ThisURL, 0), part |-> p]
     : cs \in {PlanFirstDone, PlanAllWritten, PlanFirstPartial}, p \in StaleParts}
InitStale == InitChunkOn(StaleDiskStates) /\ url = {}
SpecStale == InitStale /\ [][NextChunk]_vars

\* The scheduling of the goroutines. Every goroutine that can take a step
\* takes one: requests, reads and writes return, time.After fires. A worker
\* waiting for cd.mu gets it although the saver takes the read lock again and
\* again (a waiting writer holds back new readers of a sync.RWMutex), and the
\* saver's select takes the closed done channel although the ticker keeps
\* firing (select chooses among the ready cases at random). Nothing is assumed
\* of the ticker or of the caller's cancellation.
\* the steps of Download() and of the worker goroutine w
DownloadStep == DownloadStart \/ DownloadWait \/ DownloadCheck \/ DownloadRemove
WorkerStep(w) ==
    \/ WorkerRecv(w)
    \/ WorkerTop(w)
    \/ WorkerBackoff(w)
    \/ WorkerDirect(w)
    \/ WorkerRead(w)
    \/ WorkerUpdate(w)

FairChunk ==
    /\ WF_vars(DownloadStep)
    /\ WF_vars(SaverEncode)
    /\ SF_vars(SaverExit)
    /\ \A w \in Workers : SF_vars(WorkerStep(w))

SpecFreshFair == InitFresh /\ [][NextChunk]_vars /\ FairChunk

\* ============================================================ Downloader
\* Files are abstracted to what the dispatcher can tell about them:
\*   absent   no file
\*   empty    size 0
\*   partial  a correct prefix, shorter than the resource
\*   holes    the size of the resource, with regions never written
\*            (preallocated by a range-parallel attempt that did not finish)
\*   full     the whole resource
Outcome(err, p) == [err |-> err, part |-> p]

CopyFailed(cause) == {"failed to write to output file"} \cup cause

\* downloadSingleThreadNoRange: GET without Range, os.Create, copyWithContext
downloadSingleThreadNoRange(p) ==
    IF ctxDone
    THEN {Outcome(RequestError(ErrCanceled), p),
          Outcome(CopyFailed(ErrCanceled), "empty"),
          Outcome(CopyFailed(ErrCanceled), "partial")}
    ELSE {Outcome(Nil, "full"),
          Outcome(CopyFailed({"unexpected EOF"}), "empty"),
          Outcome(CopyFailed({"unexpected EOF"}), "partial"),
          Outcome(RequestError({"connection refused"}), p)}
         \cup {Outcome(HttpError(st), p) : st \in {"404", "416", "500"}}

\* downloadSingleThread: resume from the size of .part, then the status switch
downloadSingleThread(p) ==
    LET resume == p \in {"partial", "holes", "full"}   \* resumeOffset > 0
        sizeReached == p \in {"holes", "full"}         \* resumeOffset >= total
    IN IF ctxDone
       THEN {Outcome(RequestError(ErrCanceled), p),
             Outcome(CopyFailed(ErrCanceled), IF resume THEN p ELSE "empty"),
             Outcome(CopyFailed(ErrCanceled), "partial")}
       ELSE \* 200: os.Create, the whole body is copied
            {Outcome(Nil, "full"),
             Outcome(CopyFailed({"unexpected EOF"}), "empty"),
             Outcome(CopyFailed({"unexpected EOF"}), "partial")}
            \cup \* 206: append to .part from resumeOffset
            (IF p = "partial"
             THEN {Outcome(Nil, "full"), Outcome(CopyFailed({"unexpected EOF"}), p)}
             ELSE {})
            \cup \* 416
            (IF resume
             THEN IF sizeReached THEN {Outcome(Nil, p)}
                  ELSE downloadSingleThreadNoRange(p)
             ELSE {Outcome(HttpError("416"), p)})
            \cup {Outcome(HttpError(st), p) : st \in {"404", "500"}}
            \cup {Outcome(RequestError({"connection refused"}), p)}

\* downloadWithChunks: what chunkDownloader.Download returns (SpecChunk)
downloadWithChunks(p) ==
    IF ctxDone
    THEN {Outcome(ErrCanceled, "holes")}
    ELSE {Outcome(Nil, "full"),
          Outcome({"chunk download failed", "chunk"} \cup HttpError("404"), "holes"),
          Outcome({"chunk download failed", "chunk",
                   "chunk download failed after attempts"}, "holes"),
          Outcome({"failed to preallocate file"}, p)}

\* downloadM3U8Stream: processM3U8, os.Create, copyWithContext
downloadM3U8Stream(p) ==
    LET failed == {"failed to process M3U8 stream", "failed to parse playlist"}
    IN IF ctxDone
       THEN {Outcome(failed \cup {"failed to fetch playlist"} \cup url \cup ErrCanceled, p),
             Outcome(CopyFailed(ErrCanceled), "empty"),
             Outcome(CopyFailed(ErrCanceled), "partial")}
       ELSE {Outcome(Nil, "full"),
             Outcome(failed \cup HttpError("404") \cup {"URL"} \cup url, p),
             Outcome(CopyFailed({"failed to open segment"}), "empty"),
             Outcome(CopyFailed({"failed to open segment"}), "partial")}

Transport(engine, p) ==
    IF engine = "m3u8" THEN downloadM3U8Stream(p)
    ELSE IF engine = "chunks" THEN downloadWithChunks(p)
    ELSE downloadSingleThread(p)

\* downloadStream: the engine the dispatch picks
SelectEngine(type, supportsRange, big) ==
    IF type = "m3u8" THEN "m3u8"
    ELSE IF option.ChunkSize > 0 /\ supportsRange /\ big THEN "chunks"
    ELSE "single"

\* downloadStreamWithRetry: maxRetries
MaxAttempts == IF option.RetryCount <= 0 THEN 1 ELSE option.RetryCount

Medias ==
    UNION {[1..n -> 0..MaxStreams] : n \in 1..MaxMedias}

\* no chunkDownloader exists
IdleChunk ==
    /\ chunks = <<>>
    /\ part = [exists |-> FALSE, data |-> <<>>]
    /\ sidecar = NoSidecar
    /\ chunkChan = <<>>
    /\ semaphore = 0
    /\ workers = [w \in Workers |-> IdleWorker]
    /\ errors = <<>>
    /\ saverPc = "off"
    /\ saverLinked = FALSE
    /\ progressDone = FALSE
    /\ mainPc = "off"
    /\ result = Running
    /\ progCur = 0
    /\ faults = 0
    /\ wire = NoRequest

InitDisp ==
    /\ option \in [IgnoreErrors : BOOLEAN, RetryCount : 0..MaxRetryCount,
                   NoSkipExisting : BOOLEAN, ChunkSize : {0, ChunkSize},
                   Threads : {1, Threads}, Convert : BOOLEAN]
    /\ medias \in Medias
    /\ url \in {{}, {"416"}, {"404"}}
    /\ dPc = "Download"
    /\ mi = 1
    /\ si = 0
    /\ stream = [Type |-> "none", engine |-> "none"]
    /\ attempt = 0
    /\ lastErr = Nil
    /\ partState = "absent"
    /\ finalState = "absent"
    /\ streamRet = "none"
    /\ started = 0
    /\ observed = FALSE
    /\ fallbacks = 0
    /\ tried = NoTries
    /\ dResult = Running
    /\ ctxDone = FALSE
    /\ IdleChunk
    /\ IdleProg
    /\ IdleHls
    /\ IdleFn

chunkOnly == <<chunks, part, sidecar, chunkChan, semaphore, workers, errors,
               saverPc, saverLinked, progressDone, mainPc, result, progCur, faults,
               wire>>
notDisp == <<chunkOnly, progVars, hlsVars, fnVars>>

\* Download: what follows the return of downloadMedia
MediaReturns(err) ==
    IF err # Nil /\ ~option.IgnoreErrors
    THEN /\ dPc' = "returned"
         /\ dResult' = Returned({"failed to download media"} \cup err)
         /\ UNCHANGED mi
    ELSE IF mi < Len(medias)
    THEN /\ dPc' = "Download"
         /\ mi' = mi + 1
         /\ UNCHANGED dResult
    ELSE /\ dPc' = "returned"
         /\ dResult' = Returned(Nil)
         /\ UNCHANGED mi

\* a loop over media.Streams that returns at the first error whatever
\* option.IgnoreErrors says
StreamReturnsAborting(err) ==
    /\ tried' = [tried EXCEPT ![si].outcome =
                    IF err # Nil THEN "failed"
                    ELSE IF tried[si].calls = 0 THEN "rejected" ELSE "ok"]
    /\ IF err # Nil
       THEN /\ MediaReturns({"failed to download stream"} \cup err)
            /\ UNCHANGED si
       ELSE IF si < medias[mi]
       THEN /\ dPc' = "downloadMedia"
            /\ si' = si + 1
            /\ UNCHANGED <<mi, dResult>>
       ELSE /\ MediaReturns(Nil)
            /\ UNCHANGED si

\* downloadMedia: what follows one turn of the loop over media.Streams
StreamReturns(err) ==
    /\ tried' = [tried EXCEPT ![si].outcome =
                    IF err # Nil THEN "failed"
                    ELSE IF tried[si].calls = 0 THEN "rejected" ELSE "ok"]
    /\ IF err # Nil /\ ~option.IgnoreErrors
       THEN /\ MediaReturns({"failed to download stream"} \cup err)
            /\ UNCHANGED si
       ELSE IF si < medias[mi]
       THEN /\ dPc' = "downloadMedia"
            /\ si' = si + 1
            /\ UNCHANGED <<mi, dResult>>
       ELSE /\ MediaReturns(Nil)
            /\ UNCHANGED si

\* Download: the loop over medias, up to the call of downloadMedia
Download ==
    /\ dPc = "Download"
    /\ tried' = NoTries
    /\ IF ctxDone
       THEN /\ dPc' = "returned"
            /\ dResult' = Returned(ErrCanceled)
            /\ UNCHANGED <<mi, si>>
       ELSE IF medias[mi] = 0
       THEN /\ MediaReturns({"no streams available"})
            /\ UNCHANGED si
       ELSE /\ dPc' = "downloadMedia"
            /\ si' = 1
            /\ UNCHANGED <<mi, dResult>>
    /\ UNCHANGED <<option, medias, stream, attempt, lastErr, partState, finalState,
                   streamRet, started, observed, fallbacks, ctxDone, url>>
    /\ UNCHANGED notDisp

\* downloadMedia: one turn of the loop, up to the call of downloadStreamWithRetry
downloadMedia ==
    /\ dPc = "downloadMedia"
    /\ IF ctxDone
       THEN /\ MediaReturns(ErrCanceled)
            /\ UNCHANGED <<si, stream, attempt, lastErr, partState, finalState,
                           streamRet, started, observed, fallbacks, tried>>
       ELSE \/ \* shouldSkipStream: a filter rejects the stream
               /\ StreamReturns(Nil)
               /\ UNCHANGED <<stream, attempt, lastErr, partState, finalState,
                              streamRet, started, observed, fallbacks>>
            \/ \* the stream survives: its kind and the files found at its paths
               /\ \E type \in {"video", "m3u8"} :
                     stream' = [Type |-> type, engine |-> "none"]
               /\ partState' \in {"absent", "partial", "holes"}
               /\ finalState' \in {"absent", "full"}
               /\ streamRet' = "none"
               /\ UNCHANGED observed
               /\ attempt' = 0
               /\ lastErr' = Nil
               /\ fallbacks' = 0
               /\ started' = 0
               /\ tried' = [tried EXCEPT ![si].calls = @ + 1]
               /\ dPc' = "retry"
               /\ UNCHANGED <<mi, si, dResult>>
    /\ UNCHANGED <<option, medias, ctxDone, url>>
    /\ UNCHANGED notDisp

AttemptsExhausted(err) == {"download failed after attempts"} \cup err

\* downloadStreamWithRetry: the end of one turn of the retry loop, after err
AfterAttempt(err) ==
    IF isNonRetryableError(err) \/ attempt + 1 >= MaxAttempts
    THEN /\ StreamReturns(AttemptsExhausted(err))
         /\ streamRet' = "failed"
         /\ UNCHANGED attempt
    ELSE /\ attempt' = attempt + 1
         /\ dPc' = "retry"
         /\ UNCHANGED <<mi, si, dResult, streamRet, tried>>

\* downloadStreamWithRetry: the top of the loop
RetryTop ==
    /\ dPc = "retry"
    /\ IF ctxDone
       THEN /\ StreamReturns(ErrCanceled)
            /\ streamRet' = "canceled"
            /\ observed' = TRUE
       ELSE /\ dPc' = IF attempt > 0 THEN "backoff" ELSE "downloadStream"
            /\ UNCHANGED <<mi, si, dResult, streamRet, observed, tried>>
    /\ UNCHANGED <<option, medias, stream, attempt, lastErr, partState, finalState,
                   started, fallbacks, ctxDone, url>>
    /\ UNCHANGED notDisp

\* downloadStreamWithRetry: select over ctx.Done() and time.After(backoff)
RetryBackoff ==
    /\ dPc = "backoff"
    /\ \/ /\ ctxDone
          /\ StreamReturns(ErrCanceled)
          /\ streamRet' = "canceled"
          /\ observed' = TRUE
       \/ /\ dPc' = "downloadStream"
          /\ UNCHANGED <<mi, si, dResult, streamRet, observed, tried>>
    /\ UNCHANGED <<option, medias, stream, attempt, lastErr, partState, finalState,
                   started, fallbacks, ctxDone, url>>
    /\ UNCHANGED notDisp

\* downloadStream: skip of an existing file, then the choice of the engine
downloadStream ==
    /\ dPc = "downloadStream"
    /\ IF ~option.NoSkipExisting /\ finalState = "full"
       THEN /\ StreamReturns(Nil)
            /\ streamRet' = "skipped"
            /\ UNCHANGED <<stream, started>>
       ELSE /\ \E supportsRange \in BOOLEAN, big \in BOOLEAN :
                 stream' = [stream EXCEPT
                               !.engine = SelectEngine(stream.Type, supportsRange, big)]
            /\ started' = started + 1
            /\ dPc' = "transport"
            /\ UNCHANGED <<mi, si, dResult, streamRet, tried>>
    /\ UNCHANGED <<option, medias, attempt, lastErr, partState, finalState,
                   observed, fallbacks, ctxDone, url>>
    /\ UNCHANGED notDisp

\* downloadStream from the return of the engine on, then the rest of the turn
\* of the retry loop of downloadStreamWithRetry
StreamTransport ==
    /\ dPc = "transport"
    /\ \E o \in Transport(stream.engine, partState) :
          IF o.err # Nil
          THEN \* a .part of size 0 is removed
               /\ partState' = IF o.part = "empty" THEN "absent" ELSE o.part
               /\ lastErr' = o.err
               /\ observed' = (observed \/ "context canceled" \in o.err)
               /\ UNCHANGED finalState
               /\ IF "416" \in o.err
                  THEN /\ dPc' = "fallback"
                       /\ UNCHANGED <<mi, si, dResult, streamRet, attempt, tried>>
                  ELSE AfterAttempt(o.err)
          ELSE \* os.Rename, then the conversion
               /\ partState' = "absent"
               /\ \/ /\ finalState' = o.part
                     /\ ~option.Convert
                     /\ StreamReturns(Nil)
                     /\ streamRet' = "ok"
                     /\ UNCHANGED <<attempt, lastErr, observed>>
                  \/ \* convertFormat succeeds, the original is removed
                     /\ option.Convert
                     /\ finalState' = "absent"
                     /\ StreamReturns(Nil)
                     /\ streamRet' = "ok"
                     /\ UNCHANGED <<attempt, lastErr, observed>>
                  \/ \* convertFormat fails
                     /\ option.Convert
                     /\ finalState' = o.part
                     /\ lastErr' = {"format conversion failed"}
                     /\ AfterAttempt({"format conversion failed"})
                     /\ UNCHANGED observed
    /\ UNCHANGED <<option, medias, stream, started, fallbacks, ctxDone, url>>
    /\ UNCHANGED notDisp

\* downloadStreamWithRetry: the attempt without Range after an error that
\* contains "416"
NoRangeFallback ==
    /\ dPc = "fallback"
    /\ started' = started + 1
    /\ fallbacks' = fallbacks + 1
    /\ \E o \in downloadSingleThreadNoRange(partState) :
          /\ partState' = o.part
          /\ IF o.err = Nil
             THEN /\ StreamReturns(Nil)
                  /\ streamRet' = "ok"
                  /\ UNCHANGED <<attempt, lastErr, observed>>
             ELSE /\ lastErr' = o.err
                  /\ observed' = (observed \/ "context canceled" \in o.err)
                  /\ AfterAttempt(o.err)
    /\ UNCHANGED <<option, medias, stream, finalState, ctxDone, url>>
    /\ UNCHANGED notDisp

\* the context handed to Download is cancelled
CancelDownload ==
    /\ dPc \notin {"off", "returned"}
    /\ ~ctxDone
    /\ ctxDone' = TRUE
    /\ UNCHANGED <<option, medias, dPc, mi, si, stream, attempt, lastErr, partState,
                   finalState, streamRet, started, observed, fallbacks, tried, dResult, url>>
    /\ UNCHANGED notDisp

NextDisp ==
    \/ Download
    \/ downloadMedia
    \/ RetryTop
    \/ RetryBackoff
    \/ downloadStream
    \/ StreamTransport
    \/ NoRangeFallback
    \/ CancelDownload

SpecDisp == InitDisp /\ [][NextDisp]_vars

\* Download(medias) with the single-stream and HLS engines only: no chunked
\* download, no conversion, no digits in the URL
InitMedia ==
    /\ InitDisp
    /\ option.ChunkSize = 0
    /\ option.Threads = Threads
    /\ ~option.Convert
    /\ ~option.NoSkipExisting
    /\ url = {}

SpecMedia == InitMedia /\ [][NextDisp]_vars

\* ============================================================== progress
AdderIds == 1..Adders
IdleAdder == [pc |-> "idle", current |-> 0, now |-> 0, lastUpdate |-> 0]

notProg == <<chunkVars, dispVars, hlsVars, fnVars>>

InitProg ==
    /\ Current = 0
    /\ lastUpdate = 0
    /\ now = Epoch
    /\ adders = [a \in AdderIds |-> IdleAdder]
    /\ delivered = <<>>
    /\ finished = FALSE
    /\ ctxDone = FALSE
    /\ url = {}
    /\ IdleChunk
    /\ IdleDisp
    /\ IdleHls
    /\ IdleFn

\* Add: current := p.Current.Add(num); the deltas of all calls sum to at most
\* p.Total
ProgAdd(a) ==
    /\ adders[a].pc = "idle"
    /\ ~finished
    /\ \E num \in 0..(ProgTotal - Current) :
          /\ Current' = Current + num
          /\ adders' = [adders EXCEPT ![a] = [@ EXCEPT !.pc = "load",
                                                       !.current = Current + num]]
    /\ UNCHANGED <<lastUpdate, now, delivered, finished>>
    /\ UNCHANGED notProg

\* Add: now := time.Now().UnixMilli(); lastUpdate := p.lastUpdate.Load();
\* if now-lastUpdate > 100
ProgLoad(a) ==
    /\ adders[a].pc = "load"
    /\ adders' = [adders EXCEPT ![a] =
                     IF now - lastUpdate > UpdateInterval
                     THEN [@ EXCEPT !.pc = "cas", !.now = now,
                                    !.lastUpdate = lastUpdate]
                     ELSE IdleAdder]
    /\ UNCHANGED <<Current, lastUpdate, now, delivered, finished>>
    /\ UNCHANGED notProg

\* Add: p.lastUpdate.CompareAndSwap(lastUpdate, now)
ProgCas(a) ==
    /\ adders[a].pc = "cas"
    /\ IF lastUpdate = adders[a].lastUpdate
       THEN /\ lastUpdate' = adders[a].now
            /\ adders' = [adders EXCEPT ![a].pc = "callback"]
       ELSE /\ adders' = [adders EXCEPT ![a] = IdleAdder]
            /\ UNCHANGED lastUpdate
    /\ UNCHANGED <<Current, now, delivered, finished>>
    /\ UNCHANGED notProg

\* Add: p.callback(current, p.Total, p.Description)
ProgCallback(a) ==
    /\ adders[a].pc = "callback"
    /\ delivered' = Append(delivered, adders[a].current)
    /\ adders' = [adders EXCEPT ![a] = IdleAdder]
    /\ UNCHANGED <<Current, lastUpdate, now, finished>>
    /\ UNCHANGED notProg

\* Finish, once every Add has returned
ProgFinish ==
    /\ ~finished
    /\ \A a \in AdderIds : adders[a].pc = "idle"
    /\ Current' = ProgTotal
    /\ delivered' = Append(delivered, ProgTotal)
    /\ finished' = TRUE
    /\ UNCHANGED <<lastUpdate, now, adders>>
    /\ UNCHANGED notProg

\* the clock advances by one millisecond or by the update interval
Ticks == ((now - Epoch) \div UpdateInterval) + ((now - Epoch) % UpdateInterval)

Tick ==
    /\ Ticks < MaxTicks
    /\ \E d \in {1, UpdateInterval} : now' = now + d
    /\ UNCHANGED <<Current, lastUpdate, adders, delivered, finished>>
    /\ UNCHANGED notProg

NextProg ==
    \/ \E a \in AdderIds : ProgAdd(a)
    \/ \E a \in AdderIds : ProgLoad(a)
    \/ \E a \in AdderIds : ProgCas(a)
    \/ \E a \in AdderIds : ProgCallback(a)
    \/ ProgFinish
    \/ Tick

SpecProg == InitProg /\ [][NextProg]_vars

\* ============================================================ m3U8Reader
Min(a, b) == IF a < b THEN a ELSE b
Max(a, b) == IF a > b THEN a ELSE b

\* the plaintext of segment i (1-based)
Payload(i) == <<100 + i>>

\* PKCS#7 padding, as the origin applies it before AES-128-CBC
Pad(data) ==
    LET padLen == BlockSize - (Len(data) % BlockSize)
    IN data \o [k \in 1..padLen |-> padLen]

\* AES-128-CBC as a length-preserving bijection on byte sequences
Encrypt(data) == [k \in 1..Len(data) |-> (data[k] + 7) % 256]
CryptBlocks(data) == [k \in 1..Len(data) |-> (data[k] + 249) % 256]

removePKCS7Padding(data) ==
    IF Len(data) = 0 THEN data
    ELSE LET padLen == data[Len(data)]
         IN IF padLen > Len(data) \/ padLen > BlockSize THEN data
            ELSE IF \E k \in (Len(data) - padLen + 1)..Len(data) : data[k] # padLen
            THEN data
            ELSE SubSeq(data, 1, Len(data) - padLen)

\* the body the origin serves for segment i
SegmentBody(i) ==
    IF segments[i].Key THEN Encrypt(Pad(Payload(i))) ELSE Payload(i)

\* decryptSegmentData
decryptSegmentData(data) == removePKCS7Padding(CryptBlocks(data))

\* fetchSegmentData, when the request succeeds
fetchSegmentData(i) ==
    IF segments[i].Key THEN decryptSegmentData(SegmentBody(i)) ELSE SegmentBody(i)

\* decryptedReader.Read over a file, up to io.EOF: os.File.Read reports io.EOF
\* with 0 bytes only, so err is nil whenever readBytes > 0
decryptedReaderRead(file) ==
    LET errIsEOF == FALSE
        decrypted == CryptBlocks(file)
    IN IF errIsEOF THEN removePKCS7Padding(decrypted) ELSE decrypted

\* what the reader openSegment returns yields, up to io.EOF
openSegment(i) ==
    IF segments[i].Key THEN decryptedReaderRead(SegmentBody(i)) ELSE SegmentBody(i)

NilData == [ptr |-> FALSE, bytes |-> <<>>]
\* a slice header of which only the pointer word has been stored
TornData == [ptr |-> TRUE, bytes |-> <<>>]
FullData(bytes) == [ptr |-> TRUE, bytes |-> bytes]

NumSegments == Len(segments)
prefetchSize == Min(Len(hw) * 2, MaxPrefetch)
readerMaxRetries == Max(option.RetryCount, MinRetries)

notHls == <<chunkVars, dispVars, progVars, fnVars>>

\* the key URI of each of n segments ("" = not encrypted); the first key of a
\* playlist is A, a later one A or B
KeyURIs(n) ==
    {k \in [1..n -> {"", "A", "B"}] :
        \A i \in 1..n : k[i] = "B" => \E j \in 1..(i - 1) : k[j] = "A"}

\* decryptSegmentData / createDecryptedReader: downloadKeyWithRetry, once for
\* every encrypted segment that is decrypted
KeyGetsAfter(i) == IF segments[i].Key THEN keyGets + 1 ELSE keyGets

\* processMediaPlaylist
InitHls ==
    /\ \E n \in 1..MaxSegments : \E keys \in KeyURIs(n) :
          segments = [i \in 1..n |-> [Key |-> keys[i] # "", KeyURI |-> keys[i],
                                      Retries |-> 0, data |-> NilData]]
    /\ \E t \in 1..Threads :
          hw = [w \in 1..Min(t, Len(segments)) |->
                   [pc |-> "recv", index |-> 0, attempt |-> 0]]
    /\ currentIdx = 0
    /\ currentReader = "nil"
    /\ readPc = [pc |-> "idle", open |-> 0, dl |-> 0]
    /\ closed = FALSE
    /\ closePc = "none"
    /\ errorChan = 0
    /\ segmentChan = <<>>
    /\ coord = [next |-> 0, done |-> FALSE]
    /\ tasks = {}
    /\ spawners = {}
    /\ output = <<>>
    /\ eof = FALSE
    /\ readErr = FALSE
    /\ readsAfterClose = {}
    /\ getAfterClose = FALSE
    /\ hlsFaults = 0
    /\ keyGets = 0
    /\ ctxDone = FALSE
    /\ url = {}
    /\ IdleChunk
    /\ IdleDisp
    /\ IdleProg
    /\ IdleFn

\* prefetchCoordinator: one turn of the loop, or its end
CoordinatorSend ==
    /\ ~coord.done
    /\ IF coord.next < NumSegments /\ coord.next < prefetchSize
       THEN /\ segmentChan' = Append(segmentChan, coord.next)
            /\ coord' = [coord EXCEPT !.next = @ + 1]
       ELSE /\ coord' = [coord EXCEPT !.done = TRUE]
            /\ UNCHANGED segmentChan
    /\ UNCHANGED <<segments, currentIdx, currentReader, readPc, closed, closePc,
                   errorChan, hw, tasks, spawners, output, eof, readErr,
                   readsAfterClose, getAfterClose, hlsFaults, keyGets>>
    /\ UNCHANGED notHls

\* prefetchCoordinator: case <-r.errorChan
CoordinatorAbort ==
    /\ ~coord.done
    /\ coord.next < NumSegments /\ coord.next < prefetchSize
    /\ errorChan > 0
    /\ errorChan' = errorChan - 1
    /\ coord' = [coord EXCEPT !.done = TRUE]
    /\ UNCHANGED <<segments, currentIdx, currentReader, readPc, closed, closePc,
                   segmentChan, hw, tasks, spawners, output, eof, readErr,
                   readsAfterClose, getAfterClose, hlsFaults, keyGets>>
    /\ UNCHANGED notHls

\* one request of a segment fails: the error it gives
FetchErrors == {{"request failed"}, HttpError("404"), HttpError("500")}

\* select { case r.errorChan <- err: default: }
TrySend(ch) == IF ch = 0 THEN 1 ELSE ch

\* downloadSegmentToMemory: whether another turn of the loop follows turn k,
\* which failed with err
MemoryRetries(err, k) ==
    ~isNonRetryableError(err) /\ k + 1 < readerMaxRetries

\* downloadWorker: for segData := range r.segmentChan
HlsWorkerRecv(w) ==
    /\ w \in DOMAIN hw
    /\ hw[w].pc = "recv"
    /\ IF segmentChan # <<>>
       THEN /\ hw' = [hw EXCEPT ![w] = [pc |-> "fetch", index |-> Head(segmentChan),
                                         attempt |-> 0]]
            /\ segmentChan' = Tail(segmentChan)
       ELSE /\ coord.done
            /\ hw' = [hw EXCEPT ![w] = [pc |-> "exit", index |-> 0, attempt |-> 0]]
            /\ UNCHANGED segmentChan
    /\ UNCHANGED <<segments, currentIdx, currentReader, readPc, closed, closePc,
                   errorChan, coord, tasks, spawners, output, eof, readErr,
                   readsAfterClose, getAfterClose, hlsFaults, keyGets>>
    /\ UNCHANGED notHls

\* downloadWorker: one turn of the loop of downloadSegmentToMemory
HlsWorkerFetch(w) ==
    /\ w \in DOMAIN hw
    /\ hw[w].pc = "fetch"
    /\ LET i == hw[w].index + 1
       IN \/ /\ hw' = [hw EXCEPT ![w].pc = "store"]
             /\ keyGets' = KeyGetsAfter(i)
             /\ UNCHANGED <<segments, errorChan, hlsFaults>>
          \/ /\ hlsFaults < MaxHlsFaults
             /\ hlsFaults' = hlsFaults + 1
             /\ UNCHANGED keyGets
             /\ segments' = [segments EXCEPT ![i].Retries = @ + 1]
             /\ \E err \in FetchErrors :
                   IF MemoryRetries(err, hw[w].attempt)
                   THEN /\ hw' = [hw EXCEPT ![w].attempt = @ + 1]
                        /\ UNCHANGED errorChan
                   ELSE /\ hw' = [hw EXCEPT ![w] = [pc |-> "recv", index |-> 0,
                                                     attempt |-> 0]]
                        /\ errorChan' = TrySend(errorChan)
    /\ UNCHANGED <<currentIdx, currentReader, readPc, closed, closePc, segmentChan,
                   coord, tasks, spawners, output, eof, readErr, readsAfterClose,
                   getAfterClose>>
    /\ UNCHANGED notHls

\* downloadWorker: r.segments[segData.index].data = data, a store of several
\* words that no lock protects
HlsWorkerStore(w) ==
    /\ w \in DOMAIN hw
    /\ hw[w].pc \in {"store", "stored"}
    /\ LET i == hw[w].index + 1
       IN IF hw[w].pc = "store"
          THEN \/ /\ segments' = [segments EXCEPT ![i].data = TornData]
                  /\ hw' = [hw EXCEPT ![w].pc = "stored"]
               \/ /\ segments' = [segments EXCEPT ![i].data = FullData(fetchSegmentData(i))]
                  /\ hw' = [hw EXCEPT ![w] = [pc |-> "recv", index |-> 0, attempt |-> 0]]
          ELSE /\ segments' = [segments EXCEPT ![i].data = FullData(fetchSegmentData(i))]
               /\ hw' = [hw EXCEPT ![w] = [pc |-> "recv", index |-> 0, attempt |-> 0]]
    /\ UNCHANGED <<currentIdx, currentReader, readPc, closed, closePc, errorChan,
                   segmentChan, coord, tasks, spawners, output, eof, readErr,
                   readsAfterClose, getAfterClose, hlsFaults, keyGets>>
    /\ UNCHANGED notHls

\* triggerPrefetch: the goroutine it starts, which walks [start, end)
triggerPrefetch(start) ==
    LET end == Min(start + prefetchSize, NumSegments)
    IN IF start < end THEN spawners \cup {[next |-> start, end |-> end]}
       ELSE spawners

\* Read returns res: "data", "eof" or "error"
ReadReturns(res) ==
    /\ readPc' = [pc |-> "idle", open |-> 0, dl |-> 0]
    /\ eof' = (eof \/ res = "eof")
    /\ readErr' = (readErr \/ res = "error")
    /\ readsAfterClose' = IF closePc = "returned" THEN readsAfterClose \cup {res}
                          ELSE readsAfterClose

\* Read, from the call or from the top of its loop to the next request or return;
\* the caller's buffer holds a whole segment, so a reader that has returned
\* bytes answers io.EOF next
ReaderRead ==
    /\ readPc.pc \in {"idle", "loop"}
    /\ IF currentIdx >= NumSegments
       THEN /\ ReadReturns("eof")
            /\ currentReader' = "nil"
            /\ UNCHANGED <<currentIdx, spawners, output>>
       ELSE LET segment == segments[currentIdx + 1]
            IN /\ currentIdx' = currentIdx + 1
               /\ IF segment.data.ptr
                  THEN /\ spawners' = triggerPrefetch(currentIdx + 1)
                       /\ IF segment.data.bytes # <<>>
                          THEN /\ output' = output \o segment.data.bytes
                               /\ currentReader' = "drained"
                               /\ ReadReturns("data")
                          ELSE /\ currentReader' = "nil"
                               /\ readPc' = [pc |-> "loop", open |-> 0, dl |-> 0]
                               /\ UNCHANGED <<output, eof, readErr, readsAfterClose>>
                  ELSE /\ currentReader' = "nil"
                       /\ readPc' = [pc |-> "open", open |-> 0, dl |-> 0]
                       /\ UNCHANGED <<spawners, output, eof, readErr, readsAfterClose>>
    /\ UNCHANGED <<segments, closed, closePc, errorChan, segmentChan, coord, hw,
                   tasks, getAfterClose, hlsFaults, keyGets>>
    /\ UNCHANGED notHls

\* openSegmentWithRetry / downloadSegmentWithRetry: what follows a turn of
\* the inner loop that failed with err
OpenFailed(err) ==
    IF ~isNonRetryableError(err) /\ readPc.dl + 1 < readerMaxRetries
    THEN /\ readPc' = [readPc EXCEPT !.dl = @ + 1]
         /\ UNCHANGED <<segments, eof, readErr, readsAfterClose>>
    ELSE /\ segments' = [segments EXCEPT ![currentIdx].Retries = @ + 1]
         /\ IF ~isNonRetryableError(err) /\ readPc.open + 1 < readerMaxRetries
            THEN /\ readPc' = [readPc EXCEPT !.open = @ + 1, !.dl = 0]
                 /\ UNCHANGED <<eof, readErr, readsAfterClose>>
            ELSE ReadReturns("error")

\* Read: one request of downloadSegment for the segment Read has reached, and
\* what follows it up to the next request or the return of Read
ReaderOpen ==
    /\ readPc.pc = "open"
    /\ getAfterClose' = (getAfterClose \/ closePc = "returned")
    /\ \/ \* 200, the temporary file is written and opened
          /\ closePc # "returned"
          /\ output' = output \o openSegment(currentIdx)
          /\ currentReader' = "drained"
          /\ spawners' = triggerPrefetch(currentIdx)
          /\ ReadReturns("data")
          /\ keyGets' = KeyGetsAfter(currentIdx)
          /\ UNCHANGED <<segments, hlsFaults>>
       \/ \* 200, but Close has removed the temporary directory
          /\ closePc = "returned"
          /\ OpenFailed({"failed to create file"})
          /\ UNCHANGED <<currentReader, spawners, output, hlsFaults, keyGets>>
       \/ /\ hlsFaults < MaxHlsFaults
          /\ hlsFaults' = hlsFaults + 1
          /\ \E err \in FetchErrors : OpenFailed(err)
          /\ UNCHANGED <<currentReader, spawners, output, keyGets>>
    /\ UNCHANGED <<currentIdx, closed, closePc, errorChan, segmentChan, coord, hw,
                   tasks>>
    /\ UNCHANGED notHls

\* triggerPrefetch: one turn of the loop of its goroutine
SpawnStep(sp) ==
    /\ sp \in spawners
    /\ LET rest == IF sp.next + 1 < sp.end
                   THEN {[sp EXCEPT !.next = @ + 1]} ELSE {}
       IN IF segments[sp.next + 1].data.ptr
          THEN /\ spawners' = (spawners \ {sp}) \cup rest
               /\ UNCHANGED tasks
          ELSE IF closed
          THEN /\ spawners' = spawners \ {sp}
               /\ UNCHANGED tasks
          ELSE /\ spawners' = (spawners \ {sp}) \cup rest
               /\ tasks' = tasks \cup {[index |-> sp.next, pc |-> "check",
                                        attempt |-> 0]}
    /\ UNCHANGED <<segments, currentIdx, currentReader, readPc, closed, closePc,
                   errorChan, segmentChan, coord, hw, output, eof, readErr,
                   readsAfterClose, getAfterClose, hlsFaults, keyGets>>
    /\ UNCHANGED notHls

\* downloadSegmentAsync: the checks of r.closed and of segment.data
AsyncCheck(t) ==
    /\ t \in tasks
    /\ t.pc = "check"
    /\ tasks' = IF closed \/ segments[t.index + 1].data.ptr
                THEN tasks \ {t}
                ELSE (tasks \ {t}) \cup {[t EXCEPT !.pc = "fetch"]}
    /\ UNCHANGED <<segments, currentIdx, currentReader, readPc, closed, closePc,
                   errorChan, segmentChan, coord, hw, spawners, output, eof,
                   readErr, readsAfterClose, getAfterClose, hlsFaults, keyGets>>
    /\ UNCHANGED notHls

\* downloadSegmentAsync: one turn of the loop of downloadSegmentToMemory
AsyncFetch(t) ==
    /\ t \in tasks
    /\ t.pc = "fetch"
    /\ \/ /\ tasks' = (tasks \ {t}) \cup {[t EXCEPT !.pc = "store"]}
          /\ keyGets' = KeyGetsAfter(t.index + 1)
          /\ UNCHANGED <<segments, errorChan, hlsFaults>>
       \/ /\ hlsFaults < MaxHlsFaults
          /\ hlsFaults' = hlsFaults + 1
          /\ UNCHANGED keyGets
          /\ segments' = [segments EXCEPT ![t.index + 1].Retries = @ + 1]
          /\ \E err \in FetchErrors :
                IF MemoryRetries(err, t.attempt)
                THEN /\ tasks' = (tasks \ {t}) \cup {[t EXCEPT !.attempt = @ + 1]}
                     /\ UNCHANGED errorChan
                ELSE /\ tasks' = tasks \ {t}
                     /\ errorChan' = TrySend(errorChan)
    /\ UNCHANGED <<currentIdx, currentReader, readPc, closed, closePc, segmentChan,
                   coord, hw, spawners, output, eof, readErr, readsAfterClose,
                   getAfterClose>>
    /\ UNCHANGED notHls

\* downloadSegmentAsync: r.segments[index].data = data, a store of several
\* words that no lock protects
AsyncStore(t) ==
    /\ t \in tasks
    /\ t.pc \in {"store", "stored"}
    /\ LET i == t.index + 1
       IN \/ /\ t.pc = "store"
             /\ segments' = [segments EXCEPT ![i].data = TornData]
             /\ tasks' = (tasks \ {t}) \cup {[t EXCEPT !.pc = "stored"]}
          \/ /\ segments' = [segments EXCEPT ![i].data = FullData(fetchSegmentData(i))]
             /\ tasks' = tasks \ {t}
    /\ UNCHANGED <<currentIdx, currentReader, readPc, closed, closePc, errorChan,
                   segmentChan, coord, hw, spawners, output, eof, readErr,
                   readsAfterClose, getAfterClose, hlsFaults, keyGets>>
    /\ UNCHANGED notHls

\* Close: r.closed = true under closeMu
ReaderCloseFlag ==
    /\ closePc = "none"
    /\ closed' = TRUE
    /\ closePc' = "flagged"
    /\ UNCHANGED <<segments, currentIdx, currentReader, readPc, errorChan,
                   segmentChan, coord, hw, tasks, spawners, output, eof, readErr,
                   readsAfterClose, getAfterClose, hlsFaults, keyGets>>
    /\ UNCHANGED notHls

\* Close: under r.mu, which Read holds from its call to its return
ReaderCloseFinish ==
    /\ closePc = "flagged"
    /\ readPc.pc = "idle"
    /\ currentReader' = "nil"
    /\ errorChan' = TrySend(errorChan)
    /\ closePc' = "returned"
    /\ UNCHANGED <<segments, currentIdx, readPc, closed, segmentChan, coord, hw,
                   tasks, spawners, output, eof, readErr, readsAfterClose,
                   getAfterClose, hlsFaults, keyGets>>
    /\ UNCHANGED notHls

\* the goroutines triggerPrefetch and downloadSegmentAsync can be
Spawners == [next : 0..(MaxSegments - 1), end : 1..MaxSegments]
Tasks == [index : 0..(MaxSegments - 1), pc : {"check", "fetch", "store", "stored"},
          attempt : 0..(MinRetries + MaxRetryCount)]

NextHls ==
    \/ CoordinatorSend
    \/ CoordinatorAbort
    \/ \E w \in 1..Threads : HlsWorkerRecv(w)
    \/ \E w \in 1..Threads : HlsWorkerFetch(w)
    \/ \E w \in 1..Threads : HlsWorkerStore(w)
    \/ ReaderRead
    \/ ReaderOpen
    \/ \E sp \in Spawners : SpawnStep(sp)
    \/ \E t \in Tasks : AsyncCheck(t)
    \/ \E t \in Tasks : AsyncFetch(t)
    \/ \E t \in Tasks : AsyncStore(t)
    \/ ReaderCloseFlag
    \/ ReaderCloseFinish

SpecHls == InitHls /\ [][NextHls]_vars

\* --- the reader under downloadM3U8Stream, whose context can be cancelled
\* the caller cancels ctx; no field of the m3U8Reader holds a context
CancelHls ==
    /\ ~ctxDone
    /\ ctxDone' = TRUE
    /\ UNCHANGED <<chunkOnly, url, dispVars, progVars, hlsVars, fnVars>>

\* copyWithContext: select on ctx.Done() before each src.Read, and the loop
\* ends at the first error or io.EOF; a Read that has begun runs to its return
copyWithContext ==
    /\ readPc.pc = "idle" => ~ctxDone /\ ~readErr /\ ~eof
    /\ ReaderRead

\* a playlist of MaxSegments segments read with one download worker
InitHlsCtx == InitHls /\ NumSegments = MaxSegments /\ Len(hw) = 1

NextHlsCtx ==
    \/ CancelHls
    \/ CoordinatorSend
    \/ CoordinatorAbort
    \/ \E w \in 1..Threads : HlsWorkerRecv(w)
    \/ \E w \in 1..Threads : HlsWorkerFetch(w)
    \/ \E w \in 1..Threads : HlsWorkerStore(w)
    \/ copyWithContext
    \/ ReaderOpen
    \/ \E sp \in Spawners : SpawnStep(sp)
    \/ \E t \in Tasks : AsyncCheck(t)
    \/ \E t \in Tasks : AsyncFetch(t)
    \/ \E t \in Tasks : AsyncStore(t)
    \/ ReaderCloseFlag
    \/ ReaderCloseFinish

SpecHlsCtx == InitHlsCtx /\ [][NextHlsCtx]_vars

\* ============================================== functions without state
notFn == <<chunkVars, dispVars, progVars, hlsVars>>

\* ------------------------------------------------------ checkRangeSupport
\* strings.ToLower on the values of Accept-Ranges that occur
ToLower(str) == IF str = "Bytes" THEN "bytes" ELSE str

\* strconv.ParseInt on the values of Content-Length that occur
ParseInt(str) ==
    CASE str = "0" -> [ok |-> TRUE, value |-> 0]
      [] str = "1024" -> [ok |-> TRUE, value |-> 1024]
      [] OTHER -> [ok |-> FALSE, value |-> 0]

\* resty: Request.SetHeader
SetHeader(header, name) == header \cup {name}

\* A server, by what it answers to a HEAD: the status by whether the request
\* carries a Range header, and which of the two requests fails in transport.
Servers ==
    [AcceptRanges : {"", "none", "bytes", "Bytes"},
     ContentLength : {"", "0", "1024", "chunked"},
     plain : {200, 206},
     ranged : {200, 206, 416},
     fails : {0, 1, 2}]

\* stream.Header: the names of the headers the extractor attached
StreamHeaders == {{}, {"Referer"}, {"Range"}}

\* req.Head(stream.URL): the nth HEAD of the probe with this header
HeadRequest(server, header, nth) ==
    [err |-> server.fails = nth,
     StatusCode |-> IF "Range" \in header THEN server.ranged ELSE server.plain,
     AcceptRanges |-> server.AcceptRanges,
     ContentLength |-> server.ContentLength]

checkRangeSupport(server, streamHeader) ==
    LET req == streamHeader                    \* req.Header = stream.Header.Clone()
        resp == HeadRequest(server, req, 1)
        acceptsRanges == ToLower(resp.AcceptRanges) = "bytes"
        size == ParseInt(resp.ContentLength)
        totalSize == IF resp.ContentLength # "" /\ size.ok THEN size.value ELSE 0
        withRange == SetHeader({}, "Range")    \* SetHeader("Range", "bytes=0-1023")
        rangeReq == streamHeader               \* rangeReq.Header = stream.Header.Clone()
        rangeResp == HeadRequest(server, rangeReq, 2)
    IN IF resp.err THEN [supports |-> FALSE, size |-> 0]
       ELSE IF acceptsRanges /\ totalSize > 0
       THEN IF rangeResp.err THEN [supports |-> FALSE, size |-> totalSize]
            ELSE IF rangeResp.StatusCode = 206 THEN [supports |-> TRUE, size |-> totalSize]
            ELSE [supports |-> FALSE, size |-> totalSize]
       ELSE [supports |-> FALSE, size |-> totalSize]

ProbeInputs ==
    [fn : {"checkRangeSupport"}, server : Servers, header : StreamHeaders]

CallCheckRangeSupport ==
    /\ fnPc = "call"
    /\ fnIn.fn = "checkRangeSupport"
    /\ fnOut' = checkRangeSupport(fnIn.server, fnIn.header)
    /\ fnPc' = "done"
    /\ UNCHANGED fnIn
    /\ UNCHANGED notFn

\* ------------------------------------- filtersForStreams, shouldSkipStream
\* strings.EqualFold on the qualities that occur
EqualFold(a, b) ==
    LET fold(str) == IF str = "HD" THEN "hd" ELSE str
    IN fold(a) = fold(b)

\* strconv.Atoi on the qualities and stream IDs that occur
Atoi(str) ==
    CASE str = "1" -> [ok |-> TRUE, value |-> 1]
      [] str = "3" -> [ok |-> TRUE, value |-> 3]
      [] str = "720" -> [ok |-> TRUE, value |-> 720]
      [] str = "1080" -> [ok |-> TRUE, value |-> 1080]
      [] OTHER -> [ok |-> FALSE, value |-> 0]

\* a > b for strings, on the qualities that occur: the order of their bytes
StringGreater(a, b) ==
    LET rank(str) == CASE str = "1080" -> 1 [] str = "720" -> 2
                       [] str = "HD" -> 3 [] str = "hd" -> 4 [] OTHER -> 0
    IN rank(a) > rank(b)

qualityFilter(q) == [kind |-> "qualityFilter", q |-> q, Start |-> 0, End |-> 0]
videoOnlyFilter == [kind |-> "videoOnlyFilter", q |-> "", Start |-> 0, End |-> 0]
audioOnlyFilter == [kind |-> "audioOnlyFilter", q |-> "", Start |-> 0, End |-> 0]
noSubtitleFilter == [kind |-> "noSubtitleFilter", q |-> "", Start |-> 0, End |-> 0]
PlaylistFilter(start, end) ==
    [kind |-> "PlaylistFilter", q |-> "", Start |-> start, End |-> end]

\* the Filter method of each kind of filter
Filter(f, s) ==
    CASE f.kind = "qualityFilter" -> f.q = "" \/ EqualFold(s.Quality, f.q)
      [] f.kind = "videoOnlyFilter" -> s.Type = "video" \/ s.Type = "m3u8"
      [] f.kind = "audioOnlyFilter" -> s.Type = "audio"
      [] f.kind = "noSubtitleFilter" -> s.Type # "subtitle"
      [] f.kind = "PlaylistFilter" ->
           IF s.Type # "playlist" THEN TRUE
           ELSE LET id == Atoi(s.ID)
                IN IF ~id.ok THEN FALSE
                   ELSE IF f.Start < 0 /\ f.End < 0 THEN TRUE
                   ELSE IF f.Start >= 0 /\ f.End >= 0
                        THEN id.value >= f.Start /\ id.value <= f.End
                   ELSE IF f.Start >= 0 THEN id.value >= f.Start
                   ELSE IF f.End >= 0 THEN id.value <= f.End
                   ELSE FALSE

\* the less function handed to sort.Slice: a sorts before b
QualityBefore(a, b) ==
    IF Atoi(a).ok /\ Atoi(b).ok THEN Atoi(a).value > Atoi(b).value
    ELSE StringGreater(a, b)

filtersForStreams(o, streams) ==
    LET quality == IF o.Quality = "" THEN "best" ELSE o.Quality
        order == {streams[i].Quality : i \in DOMAIN streams}
        first == CHOOSE a \in order : \A b \in order \ {a} : QualityBefore(a, b)
        last == CHOOSE a \in order : \A b \in order \ {a} : QualityBefore(b, a)
        target == IF quality = "best" THEN first ELSE last
    IN (IF quality = "best" \/ quality = "worst" THEN <<qualityFilter(target)>>
        ELSE <<qualityFilter(quality)>>)
       \o (IF o.VideoOnly THEN <<videoOnlyFilter>> ELSE <<>>)
       \o (IF o.AudioOnly THEN <<audioOnlyFilter>> ELSE <<>>)
       \o (IF ~o.Subtitle THEN <<noSubtitleFilter>> ELSE <<>>)
       \o (IF o.PlaylistStart > 0 \/ o.PlaylistEnd > 0
           THEN <<PlaylistFilter(o.PlaylistStart, o.PlaylistEnd)>> ELSE <<>>)

\* a chain walk that asks the first filter only
shouldSkipStreamFirstOnly(s, filters) ==
    IF Len(filters) = 0 THEN FALSE ELSE ~Filter(filters[1], s)

RECURSIVE SkipFrom(_, _, _)
\* shouldSkipStream: the loop over filters from index k on
SkipFrom(s, filters, k) ==
    IF k > Len(filters) THEN FALSE
    ELSE IF ~Filter(filters[k], s) THEN TRUE
    ELSE SkipFrom(s, filters, k + 1)

shouldSkipStream(s, filters) ==
    IF Len(filters) = 0 THEN FALSE ELSE SkipFrom(s, filters, 1)

FilterOptions ==
    [Quality : {"", "worst", "720", "HD"}, VideoOnly : BOOLEAN, AudioOnly : BOOLEAN,
     Subtitle : BOOLEAN, PlaylistStart : {-1, 0, 2}, PlaylistEnd : {-1, 0, 2}]

FilterStreams ==
    [Type : {"video", "audio", "subtitle", "playlist"},
     Quality : {"720", "1080", "hd"}, ID : {"1", "3", "x"}]

\* the other streams of the media, of which filtersForStreams reads the Quality
OtherStreams ==
    UNION {[1..n -> [Type : {"video"}, Quality : {"720", "1080", "hd"}, ID : {"1"}]]
             : n \in 0..MaxOtherStreams}

FilterInputs ==
    [fn : {"shouldSkipStream"}, option : FilterOptions, stream : FilterStreams,
     others : OtherStreams]

\* media.Streams of a call
MediaStreams(in) == <<in.stream>> \o in.others

CallShouldSkipStream ==
    /\ fnPc = "call"
    /\ fnIn.fn = "shouldSkipStream"
    /\ fnOut' = shouldSkipStream(fnIn.stream,
                                 filtersForStreams(fnIn.option, MediaStreams(fnIn)))
    /\ fnPc' = "done"
    /\ UNCHANGED fnIn
    /\ UNCHANGED notFn

\* ------------------------------------------------------- SanitizeFilename
\* the characters the expression [<>:"/\\|?*] matches
InvalidChars == {"<", ">", ":", "\"", "/", "\\", "|", "?", "*"}

\* invalid.ReplaceAllString(filename, "_")
ReplaceAllString(filename, repl) ==
    [i \in 1..Len(filename) |-> IF filename[i] \in InvalidChars THEN repl ELSE filename[i]]

RECURSIVE TrimLeft(_, _)
TrimLeft(str, cutset) ==
    IF str # <<>> /\ Head(str) \in cutset THEN TrimLeft(Tail(str), cutset) ELSE str

RECURSIVE TrimRight(_, _)
TrimRight(str, cutset) ==
    IF str # <<>> /\ str[Len(str)] \in cutset
    THEN TrimRight(SubSeq(str, 1, Len(str) - 1), cutset)
    ELSE str

\* strings.Trim
Trim(str, cutset) == TrimRight(TrimLeft(str, cutset), cutset)

SanitizeFilename(filename) ==
    LET replaced == ReplaceAllString(filename, "_")
        trimmed == Trim(replaced, {" ", "."})
    IN IF Len(trimmed) > MaxFilenameLen THEN SubSeq(trimmed, 1, MaxFilenameLen)
       ELSE trimmed

\* strings.Repeat("a", n)
Repeat(n) == [i \in 1..n |-> "a"]

\* the names: a run of letters, then up to MaxTail characters of any kind
Filenames ==
    {Repeat(n) \o tail :
        n \in {0, MaxFilenameLen - 2, MaxFilenameLen - 1, MaxFilenameLen},
        tail \in UNION {[1..k -> {"a", ".", " ", "/"}] : k \in 0..MaxTail}}

SanitizeInputs == [fn : {"SanitizeFilename"}, filename : Filenames]

CallSanitizeFilename ==
    /\ fnPc = "call"
    /\ fnIn.fn = "SanitizeFilename"
    /\ fnOut' = SanitizeFilename(fnIn.filename)
    /\ fnPc' = "done"
    /\ UNCHANGED fnIn
    /\ UNCHANGED notFn

\* ------------------------------------------------------- initializeChunks
PlanInputs ==
    [fn : {"initializeChunks"}, totalSize : 1..MaxPlanSize, chunkSize : 1..MaxPlanSize]

CallInitializeChunks ==
    /\ fnPc = "call"
    /\ fnIn.fn = "initializeChunks"
    /\ fnOut' = initializeChunksOf(fnIn.totalSize, fnIn.chunkSize)
    /\ fnPc' = "done"
    /\ UNCHANGED fnIn
    /\ UNCHANGED notFn

\* ----------------------------------- downloadStream: the existing final file
\* os.Stat(outputPath): the file's size, or no file
StatResults == [exists : {FALSE}, size : {0}] \cup [exists : {TRUE}, size : 0..MaxFileSize]

\* the test that opens downloadStream: TRUE when the function returns nil at
\* once, FALSE when it goes on to create the directory and choose an engine
skipExisting(o, fi, declared) ==
    ~o.NoSkipExisting /\ fi.exists /\ fi.size = declared

SkipInputs ==
    [fn : {"skipExisting"}, NoSkipExisting : BOOLEAN, fi : StatResults,
     Size : 0..MaxFileSize]

CallSkipExisting ==
    /\ fnPc = "call"
    /\ fnIn.fn = "skipExisting"
    /\ fnOut' = skipExisting(fnIn, fnIn.fi, fnIn.Size)
    /\ fnPc' = "done"
    /\ UNCHANGED fnIn
    /\ UNCHANGED notFn

\* ------------------------------------------- Download(): the sidecar found
\* Download(): the plan of the sidecar is the one the run works with (neither
\* loadProgress nor validateChunks made it fall back to initializeChunks)
acceptsSidecar(sc) == loadProgress(sc) /\ validateChunks(sc.Chunks)

\* plans a decoded sidecar can hold: a saved plan with one field of one chunk
\* changed
Damaged(p) ==
    {p}
    \cup {[p EXCEPT ![i].Start = v] : i \in 1..Len(p), v \in (0 - 1)..TotalSize}
    \cup {[p EXCEPT ![i].End = v] : i \in 1..Len(p), v \in (0 - 1)..TotalSize}
    \cup {[p EXCEPT ![i].Size = v] : i \in 1..Len(p), v \in 0..TotalSize}
    \cup {[p EXCEPT ![i].Downloaded = v] : i \in 1..Len(p), v \in (0 - 1)..(TotalSize + 1)}
    \cup {[p EXCEPT ![i].Completed = b] : i \in 1..Len(p), b \in BOOLEAN}

Sidecars ==
    {NoSidecar, [NoSidecar EXCEPT !.state = "empty"]}
    \cup {SavedPlan(cs, total, u, age) :
             cs \in Damaged(initializeChunks) \cup Damaged(PlanFirstDone) \cup {<<>>},
             total \in {TotalSize, TotalSize + 1},
             u \in {ThisURL, "other"},
             age \in {0, MaxAgeDays, MaxAgeDays + 1}}

SidecarInputs == [fn : {"acceptsSidecar"}, sc : Sidecars]

CallAcceptsSidecar ==
    /\ fnPc = "call"
    /\ fnIn.fn = "acceptsSidecar"
    /\ fnOut' = acceptsSidecar(fnIn.sc)
    /\ fnPc' = "done"
    /\ UNCHANGED fnIn
    /\ UNCHANGED notFn

\* ---------------------------------------- downloadSingleThread, byte by byte
\* what a call leaves: the error, the .part file, the progress tracker
\* [Total, Initial (Current before the copy), Current] and whether the request
\* carried a Range header
SingleOutcome(err, f, prog, ranged) ==
    [err |-> err, file |-> f, progress |-> prog, Range |-> ranged]

NoProgress == [Total |-> 0, Initial |-> 0, Current |-> 0]

\* the rest of a call once the status is accepted: the file is opened
\* (O_APPEND or os.Create), totalSize is read off Content-Length, the progress
\* is created and copyWithContext drains the body; the body breaks off after
\* cut bytes when it is longer than that
CopyBody(f, append, resumeOffset, partial, body, cut, ranged) ==
    LET kept == IF append THEN f.data ELSE <<>>
        n == IF cut < Len(body) THEN cut ELSE Len(body)
        totalSize == IF partial THEN Len(body) + resumeOffset ELSE Len(body)
        initial == IF resumeOffset > 0 THEN resumeOffset ELSE 0
    IN SingleOutcome(IF cut < Len(body) THEN CopyFailed({"unexpected EOF"}) ELSE Nil,
                     [exists |-> TRUE, data |-> kept \o SubSeq(body, 1, n)],
                     [Total |-> totalSize, Initial |-> initial, Current |-> initial + n],
                     ranged)

\* downloadSingleThreadNoRange on the .part file f: 200 and the full body
downloadSingleThreadNoRangeFile(f, cut, ranged) ==
    CopyBody(f, FALSE, 0, FALSE, FullBody, cut, ranged)

\* a downloadSingleThread that opens the file with O_APPEND whenever it asked
\* for a range
downloadSingleThreadAppending(f, status, cut) ==
    LET offset == IF f.exists THEN Len(f.data) ELSE 0
    IN IF status \in {"200", "206"}
       THEN CopyBody(f, offset > 0, offset, status = "206",
                     IF status = "206" THEN RangeBody(offset, TotalSize - 1) ELSE FullBody,
                     cut, offset > 0)
       ELSE SingleOutcome(HttpError(status), f, NoProgress, offset > 0)

\* downloadSingleThread on the .part file f, the origin answering with status
downloadSingleThreadFile(f, status, cut) ==
    LET offset == IF f.exists THEN Len(f.data) ELSE 0   \* resumeOffset after os.Stat
        ranged == offset > 0
    IN IF status = "200"
       THEN \* resumeOffset = 0, os.Create
            CopyBody(f, FALSE, 0, FALSE, FullBody, cut, ranged)
       ELSE IF status = "206"
       THEN CopyBody(f, offset > 0, IF offset > 0 THEN offset ELSE 0, TRUE,
                     RangeBody(offset, TotalSize - 1), cut, ranged)
       ELSE IF status = "416"
       THEN IF offset > 0
            THEN IF offset >= TotalSize     \* Content-Range: bytes */TotalSize
                 THEN SingleOutcome(Nil, f, NoProgress, ranged)
                 ELSE downloadSingleThreadNoRangeFile(f, cut, ranged)
            ELSE SingleOutcome(HttpError(status), f, NoProgress, ranged)
       ELSE SingleOutcome(HttpError(status), f, NoProgress, ranged)

\* the .part files a call can find: none, a prefix of the resource an earlier
\* attempt left, or bytes of another resource
PartFiles ==
    {[exists |-> FALSE, data |-> <<>>]}
    \cup {[exists |-> TRUE, data |-> SubSeq(Origin, 1, n)] : n \in 0..TotalSize}
    \cup {[exists |-> TRUE, data |-> [i \in 1..n |-> 9]] : n \in 1..(TotalSize + 1)}

\* the origin answers 206 only to a request with a range it can satisfy
SingleInputs ==
    {in \in [fn : {"downloadSingleThread"}, f : PartFiles,
             status : {"200", "206", "416", "404"}, cut : 0..TotalSize] :
        in.status = "206" => (in.f.exists /\ Len(in.f.data) > 0
                                 /\ Len(in.f.data) < TotalSize)}

CallDownloadSingleThread ==
    /\ fnPc = "call"
    /\ fnIn.fn = "downloadSingleThread"
    /\ fnOut' = downloadSingleThreadFile(fnIn.f, fnIn.status, fnIn.cut)
    /\ fnPc' = "done"
    /\ UNCHANGED fnIn
    /\ UNCHANGED notFn

\* ------------------------------------------- processMasterPlaylist
MaxVariants == 2
MaxBandwidth == 2

\* variant.Resolution as the set of numbers the string contains
Resolutions == {{"1280", "720"}, {"1920", "1080"}}
QualityHints == {"", "best", "worst", "720", "480"}

\* the loop over playlist.Variants from position k on: the index of the
\* selected variant (0 = selectedVariant is nil) when the best so far is sel
\* with bandwidth maxBandwidth
RECURSIVE selectVariant(_, _, _, _)
selectVariant(variants, k, maxBandwidth, sel) ==
    IF k > Len(variants) THEN sel
    ELSE IF variants[k].Bandwidth > maxBandwidth
         THEN selectVariant(variants, k + 1, variants[k].Bandwidth, k)
         ELSE selectVariant(variants, k + 1, maxBandwidth, sel)

\* processMasterPlaylist: the variant it goes on with, or the error; the
\* option's Quality is not read
processMasterPlaylist(variants, quality) ==
    IF Len(variants) = 0
    THEN [fn |-> "processMasterPlaylist", selected |-> 0,
          err |-> {"no variants found in master playlist"}]
    ELSE LET sel == selectVariant(variants, 1, 0, 0)
         IN IF sel = 0
            THEN [fn |-> "processMasterPlaylist", selected |-> 0,
                  err |-> {"no suitable variant found"}]
            ELSE [fn |-> "processMasterPlaylist", selected |-> sel, err |-> Nil]

MasterInputs ==
    [fn : {"processMasterPlaylist"}, Quality : QualityHints,
     Variants : UNION {[1..n -> [Bandwidth : 0..MaxBandwidth,
                                 Resolution : Resolutions]] : n \in 1..MaxVariants}]

CallProcessMasterPlaylist ==
    /\ fnPc = "call"
    /\ fnIn.fn = "processMasterPlaylist"
    /\ fnOut' = processMasterPlaylist(fnIn.Variants, fnIn.Quality)
    /\ fnPc' = "done"
    /\ UNCHANGED fnIn
    /\ UNCHANGED notFn

\* --------------------------------- the retry loops of the m3U8Reader
MaxGetFails == 4

\* what a request of a segment can fail with, and a request of a key (a key
\* that is not 16 bytes long included)
SegmentErrors == {{"request failed"}, HttpError("500"), HttpError("404")}
KeyErrors ==
    {{"request failed"}, {"HTTP error downloading key", "500"},
     {"HTTP error downloading key", "404"}, {"invalid key length"}}
\* key.IV: absent, of another length than 32 digits, or not hexadecimal
IVs == {"", "invalid IV length", "invalid IV format"}

\* A call is made in a world in: the first in.segFails requests of the segment
\* fail with in.segErr and the first in.keyFails requests of the key with
\* in.keyErr. Its progress is [seg, key, err]: the requests of the segment and
\* of the key made so far and the error of the step just made.
Failed(st, err) == [st EXCEPT !.err = err]

downloadKey(in, st) ==
    [seg |-> st.seg, key |-> st.key + 1,
     err |-> IF st.key < in.keyFails THEN in.keyErr ELSE Nil]

RECURSIVE downloadKeyWithRetry(_, _, _)
downloadKeyWithRetry(in, st, turn) ==
    LET r == downloadKey(in, st)
    IN IF r.err = Nil THEN r
       ELSE IF isNonRetryableError(r.err) \/ turn + 1 >= Max(in.RetryCount, MinRetries)
       THEN Failed(r, r.err \cup {"failed to download key"})
       ELSE downloadKeyWithRetry(in, r, turn + 1)

\* decryptSegmentData / createDecryptedReader up to the decrypter: the key,
\* then the IV
newDecrypter(in, st) ==
    LET k == downloadKeyWithRetry(in, st, 0)
    IN IF k.err # Nil THEN Failed(k, k.err \cup {"failed to download encryption key"})
       ELSE IF in.IV # "" THEN Failed(k, {in.IV})
       ELSE k

\* fetchSegmentData with its requests counted
fetchSegment(in, st) ==
    LET got == [st EXCEPT !.seg = @ + 1]
    IN IF st.seg < in.segFails THEN Failed(got, in.segErr)
       ELSE IF ~in.Key THEN Failed(got, Nil)
       ELSE LET d == newDecrypter(in, got)
            IN IF d.err # Nil THEN Failed(d, d.err \cup {"failed to decrypt segment"})
               ELSE IF ~in.aligned
               THEN Failed(d, {"data length not aligned to block size",
                               "failed to decrypt segment"})
               ELSE d

RECURSIVE downloadSegmentToMemory(_, _, _)
downloadSegmentToMemory(in, st, turn) ==
    LET r == fetchSegment(in, st)
    IN IF r.err = Nil THEN r
       ELSE IF isNonRetryableError(r.err) \/ turn + 1 >= Max(in.RetryCount, MinRetries)
       THEN Failed(r, r.err \cup {"failed to download segment"})
       ELSE downloadSegmentToMemory(in, r, turn + 1)

downloadSegment(in, st) ==
    [seg |-> st.seg + 1, key |-> st.key,
     err |-> IF st.seg < in.segFails THEN in.segErr ELSE Nil]

RECURSIVE downloadSegmentWithRetry(_, _, _)
downloadSegmentWithRetry(in, st, turn) ==
    LET r == downloadSegment(in, st)
    IN IF r.err = Nil THEN r
       ELSE IF isNonRetryableError(r.err) \/ turn + 1 >= Max(in.RetryCount, MinRetries)
       THEN Failed(r, r.err \cup {"failed to download segment"})
       ELSE downloadSegmentWithRetry(in, r, turn + 1)

\* openSegment with its requests counted
openSegmentFile(in, st) ==
    LET f == downloadSegmentWithRetry(in, st, 0)
    IN IF f.err # Nil THEN f
       ELSE IF in.Key THEN newDecrypter(in, f)
       ELSE f

RECURSIVE openSegmentWithRetry(_, _, _)
openSegmentWithRetry(in, st, turn) ==
    LET r == openSegmentFile(in, st)
    IN IF r.err = Nil THEN r
       ELSE IF isNonRetryableError(r.err) \/ turn + 1 >= Max(in.RetryCount, MinRetries)
       THEN Failed(r, r.err \cup {"failed to open segment"})
       ELSE openSegmentWithRetry(in, r, turn + 1)

\* one consumption of a segment: by a worker or a prefetch task ("memory"), or
\* by the Read that reaches a segment without data ("open")
consumeSegment(in) ==
    LET st0 == [seg |-> 0, key |-> 0, err |-> Nil]
        r == IF in.path = "memory" THEN downloadSegmentToMemory(in, st0, 0)
             ELSE openSegmentWithRetry(in, st0, 0)
    IN [fn |-> "consumeSegment", seg |-> r.seg, key |-> r.key, err |-> r.err]

RetryInputs ==
    [fn : {"consumeSegment"}, path : {"memory", "open"},
     RetryCount : 0..MaxRetryCount, segFails : 0..MaxGetFails,
     segErr : SegmentErrors, Key : {FALSE}, keyFails : {0},
     keyErr : {{"request failed"}}, IV : {""}, aligned : {TRUE}]
    \cup
    [fn : {"consumeSegment"}, path : {"memory", "open"},
     RetryCount : 0..MaxRetryCount, segFails : 0..MaxGetFails,
     segErr : SegmentErrors, Key : {TRUE}, keyFails : 0..MaxGetFails,
     keyErr : KeyErrors, IV : IVs, aligned : BOOLEAN]

CallConsumeSegment ==
    /\ fnPc = "call"
    /\ fnIn.fn = "consumeSegment"
    /\ fnOut' = consumeSegment(fnIn)
    /\ fnPc' = "done"
    /\ UNCHANGED fnIn
    /\ UNCHANGED notFn

\* ------------------------------------------------------------- the calls
InitFn ==
    /\ fnPc = "call"
    /\ fnIn \in ProbeInputs \cup FilterInputs \cup SanitizeInputs \cup PlanInputs
                \cup SkipInputs \cup SidecarInputs \cup SingleInputs
                \cup MasterInputs \cup RetryInputs
    /\ fnOut = [fn |-> "none"]
    /\ ctxDone = FALSE
    /\ url = {}
    /\ IdleChunk
    /\ IdleDisp
    /\ IdleProg
    /\ IdleHls

NextFn ==
    \/ CallCheckRangeSupport
    \/ CallShouldSkipStream
    \/ CallSanitizeFilename
    \/ CallInitializeChunks
    \/ CallSkipExisting
    \/ CallAcceptsSidecar
    \/ CallDownloadSingleThread
    \/ CallProcessMasterPlaylist
    \/ CallConsumeSegment

SpecFn == InitFn /\ [][NextFn]_vars

\* ================================================== claims: chunk engine
Succeeded == result.done /\ result.err = Nil
PartByte(off) ==
    IF part.exists /\ off + 1 <= Len(part.data) THEN part.data[off + 1] ELSE 0

\* C1: whenever the range-parallel engine returns success, every byte offset
\* in [0, N) of the .part file holds the byte the origin serves there.
C1_SuccessMeansOriginBytes ==
    Succeeded => \A off \in 0..(TotalSize - 1) : PartByte(off) = OriginByte(off)

\* C2: at every point of a range-parallel download, for every chunk the
\* persisted sidecar records, the bytes [start, start+downloaded) are already
\* in .part with the origin's content.
C2_SidecarCoveredByPart ==
    sidecar.state = "plan" =>
        \A c \in 1..Len(sidecar.Chunks) :
            \A k \in 0..(sidecar.Chunks[c].Downloaded - 1) :
                LET off == sidecar.Chunks[c].Start + k
                IN off < TotalSize /\ PartByte(off) = OriginByte(off)

\* C4: once the engine has returned success no .progress file exists: the
\* sidecar is deleted on success and the saver never writes one afterwards.
C4_NoSidecarAfterSuccess ==
    Succeeded => sidecar.state = "absent"

\* C5: when the engine returns cancellation or a recorded chunk error, both
\* the .part file and the .progress sidecar are on disk.
C5_FilesKeptOnFailure ==
    (result.done /\ ("context canceled" \in result.err
                     \/ "chunk download failed" \in result.err))
        => (part.exists /\ sidecar.state = "plan")


\* ==================================================== claims: Downloader
\* C3: when downloadStreamWithRetry reports success for a stream that was not
\* skipped as existing, the final path exists and .part is gone (no conversion
\* requested, which would remove the final file).
C3_SuccessMeansRenamed ==
    (streamRet = "ok" /\ ~option.Convert)
        => (finalState # "absent" /\ partState = "absent")

\* C6: when a stream of a running Download has met the cancellation, Download
\* returns a cancellation error, whatever IgnoreErrors is.
C6_CancelReturnsCancellation ==
    (dResult.done /\ observed) => "context canceled" \in dResult.err

\* C7: once the retry loop has seen a cancellation, no further download
\* attempt is started.
C7_NoAttemptAfterCancel == [][observed => started' = started]_vars

\* ====================================================== claims: progress
\* C8: the values of current handed to the callback of one tracker never
\* decrease and never exceed the total.
C8_CallbackMonotoneBounded ==
    /\ \A i \in 1..Len(delivered) : delivered[i] <= ProgTotal
    /\ \A i \in 1..Len(delivered) : \A j \in i..Len(delivered) :
          delivered[i] <= delivered[j]

\* ==================================================== claims: m3U8Reader
RECURSIVE Payloads(_)
Payloads(n) == IF n = 0 THEN <<>> ELSE Payloads(n - 1) \o Payload(n)

\* C9: when the reader, never closed and never failing, has reached io.EOF,
\* the bytes it returned are the payloads of the segments in playlist order,
\* each once.
C9_OutputIsPlaylistOrder ==
    (eof /\ ~readErr /\ closePc = "none") => output = Payloads(NumSegments)

\* C10: a Read made after Close has returned ends with io.EOF and requests
\* no segment.
C10_ReadAfterCloseIsEOF ==
    readsAfterClose \subseteq {"eof"} /\ ~getAfterClose

\* the cached-bytes slots of the segments
CachedData(segs) == [i \in DOMAIN segs |-> segs[i].data]

\* C11: once Close has returned, no downloadSegmentAsync task writes a
\* segment's cached-bytes slot (a step that leaves the downloadWorker
\* goroutines alone and changes a slot is a step of such a task).
C11_NoPrefetchWriteAfterClose ==
    [][(closePc = "returned" /\ hw' = hw)
          => CachedData(segments') = CachedData(segments)]_vars

\* the distinct keys of the playlist
DistinctKeys == {segments[i].KeyURI : i \in {j \in DOMAIN segments : segments[j].Key}}

\* C12: when the reader, never closed and never failing, has reached io.EOF,
\* it has requested each distinct key of the playlist once.
C12_OneGetPerKey ==
    (eof /\ ~readErr /\ closePc = "none") => keyGets = Cardinality(DistinctKeys)

\* the failure is one of the terminal statuses 401, 403, 404, 410
TerminalKind(err) ==
    "HTTP error" \in err /\ \E st \in {"401", "403", "404", "410"} : st \in err

\* C13: the dispatcher gives up on a stream after a failed attempt only if the
\* failure is a terminal status, or max(retry_count, 1) attempts were made, or
\* the failure is the cancellation; the text of the URL plays no part.
C13_GiveUpOnlyWhenTerminal ==
    streamRet = "failed"
        => \/ TerminalKind(lastErr)
           \/ attempt + 1 >= MaxAttempts
           \/ "context canceled" \in lastErr

\* C14: a failure of the conversion after a completed transfer is terminal for
\* the stream: while it is the last error and the complete file is in place,
\* no engine is started again, so no byte is fetched a second time.
C14_NoDownloadAfterConversionFailure ==
    [][("format conversion failed" \in lastErr /\ finalState = "full")
          => started' = started]_vars

\* C15: over the retry loop of one stream the attempt without Range is made at
\* most once, and only after a failure whose HTTP status is 416.
C15_FallbackOnceAfter416 ==
    /\ fallbacks <= 1
    /\ dPc = "fallback" => HttpError("416") \subseteq lastErr

\* C17: a stream that is not HLS is handed to the range-parallel engine only
\* when threads > 1 (besides confirmed range support, chunk_size > 0 and a
\* total above chunk_size); with threads <= 1 the single-stream engine is used.
C17_ChunksOnlyWithThreads ==
    stream.engine = "chunks" => option.Threads > 1

\* the media whose loop over media.Streams has run to its end, 0 if none has
FinishedMedia ==
    IF dPc = "returned" /\ dResult.err = Nil THEN mi
    ELSE IF dPc = "Download" /\ mi > 1 THEN mi - 1
    ELSE 0

\* C16: with ignore_errors unset, the first stream that fails makes the media
\* (and Download) fail and no later stream of the media is looked at; with
\* ignore_errors set, no stream is attempted twice and, unless the download is
\* cancelled, every stream of a finished media that the filters let through
\* was attempted exactly once, whether the other streams failed or not.
C16_IgnoreErrorsPerStream ==
    /\ ~option.IgnoreErrors
         => \A s \in 1..MaxStreams :
               tried[s].outcome = "failed"
                 => /\ dPc = "returned"
                    /\ "failed to download stream" \in dResult.err
                    /\ \A t \in (s + 1)..MaxStreams : tried[t] = NoTries[t]
    /\ option.IgnoreErrors
         => /\ \A s \in 1..MaxStreams : tried[s].calls <= 1
            /\ (FinishedMedia > 0 /\ ~ctxDone)
                 => \A s \in 1..medias[FinishedMedia] :
                       \/ tried[s].outcome = "rejected" /\ tried[s].calls = 0
                       \/ tried[s].outcome \in {"ok", "failed"} /\ tried[s].calls = 1

\* C16 witness: ignore_errors is set, the first stream of a media failed and
\* the second one was attempted all the same, once, and the media finished
C16_Witness ==
    /\ option.IgnoreErrors
    /\ ~ctxDone
    /\ FinishedMedia > 0
    /\ medias[FinishedMedia] = 2
    /\ tried[1] = [calls |-> 1, outcome |-> "failed"]
    /\ tried[2].calls = 1

\* the plain HEAD advertises Accept-Ranges: bytes and a positive Content-Length
Advertises(server) ==
    /\ server.AcceptRanges \in {"bytes", "Bytes"}
    /\ server.ContentLength = "1024"

\* C18: the probe reports range support exactly when no HEAD fails, the plain
\* HEAD advertises Accept-Ranges: bytes with a positive Content-Length and the
\* server answers a HEAD that carries a Range header with 206; so it reports
\* support for a server that answers 206 with a Range header and 200 without.
C18_ProbeReportsSupport ==
    (fnPc = "done" /\ fnIn.fn = "checkRangeSupport")
        => (fnOut.supports
              <=> /\ fnIn.server.fails = 0
                  /\ Advertises(fnIn.server)
                  /\ fnIn.server.ranged = 206)

\* the chain of a call, and the chain in the order p
Chain == filtersForStreams(fnIn.option, MediaStreams(fnIn))
Permuted(chain, p) == [i \in DOMAIN chain |-> chain[p[i]]]

\* C19: for every stream, every option set and every permutation of the chain
\* built from the options, the stream is skipped under the permuted chain
\* exactly when it is skipped under the original one, and it survives exactly
\* when every filter of the chain accepts it.
C19_FilterOrderInsensitive ==
    (fnPc = "done" /\ fnIn.fn = "shouldSkipStream")
        => /\ \A p \in Permutations(DOMAIN Chain) :
                 shouldSkipStream(fnIn.stream, Permuted(Chain, p)) = fnOut
           /\ ~fnOut <=> \A i \in DOMAIN Chain : Filter(Chain[i], fnIn.stream)

\* C19 witness: a chain of three filters or more whose first filter accepts the
\* stream and whose last one rejects it, so that the order decides which filter
\* is the one that rejects
C19_Witness ==
    /\ fnPc = "done"
    /\ fnIn.fn = "shouldSkipStream"
    /\ Len(Chain) >= 3
    /\ Filter(Chain[1], fnIn.stream)
    /\ ~Filter(Chain[Len(Chain)], fnIn.stream)
    /\ fnOut = TRUE

\* C20: sanitizing a sanitized filename changes nothing, whatever the length
\* of the name and wherever its dots and spaces are.
C20_SanitizeIdempotent ==
    (fnPc = "done" /\ fnIn.fn = "SanitizeFilename")
        => SanitizeFilename(fnOut) = fnOut

\* C21: for every total_size >= 1 and chunk_size >= 1 the fresh plan has
\* ceil(total_size / chunk_size) chunks with indices 0, 1, ..., its ranges are
\* contiguous from 0 to total_size - 1, each size is end - start + 1, every
\* chunk but the last has size chunk_size, and the sizes sum to total_size.
C21_FreshPlanPartitions ==
    (fnPc = "done" /\ fnIn.fn = "initializeChunks")
        => LET cs == fnOut
               n == Len(cs)
           IN /\ n * fnIn.chunkSize >= fnIn.totalSize
              /\ (n - 1) * fnIn.chunkSize < fnIn.totalSize
              /\ \A i \in 1..n : cs[i].Index = i - 1
              /\ cs[1].Start = 0
              /\ \A i \in 1..(n - 1) : cs[i + 1].Start = cs[i].End + 1
              /\ cs[n].End = fnIn.totalSize - 1
              /\ \A i \in 1..n : cs[i].Size = cs[i].End - cs[i].Start + 1
              /\ \A i \in 1..(n - 1) : cs[i].Size = fnIn.chunkSize
              /\ SumSize(cs) = fnIn.totalSize

\* C21 witness: a plan of several chunks whose last chunk is the remainder
C21_Witness ==
    /\ fnPc = "done"
    /\ fnIn.fn = "initializeChunks"
    /\ Len(fnOut) >= 2
    /\ fnOut[Len(fnOut)].Size < fnIn.chunkSize

\* C22: with skip_existing in force, a final file whose size equals a declared
\* size > 0 makes downloadStream return success at once; a stream whose
\* declared size is 0 or unknown is never skipped on the size comparison.
C22_SkipOnlyOnDeclaredSize ==
    (fnPc = "done" /\ fnIn.fn = "skipExisting")
        => /\ (~fnIn.NoSkipExisting /\ fnIn.fi.exists /\ fnIn.Size > 0
                  /\ fnIn.fi.size = fnIn.Size) => fnOut
           /\ fnIn.Size = 0 => ~fnOut

\* ============================================ claims: chunk bookkeeping
\* C23: in every state of a range-parallel download every chunk has
\* 0 <= downloaded <= size, also when the server answers a range request with
\* 200 and the full body.
C23_DownloadedWithinSize ==
    \A c \in 1..Len(chunks) :
        chunks[c].Downloaded >= 0 /\ chunks[c].Downloaded <= chunks[c].Size

\* C24: in every state of a range-parallel download, mid-flight states
\* included, a chunk is marked completed exactly when downloaded = size.
C24_CompletedIffAllDownloaded ==
    \A c \in 1..Len(chunks) :
        chunks[c].Completed <=> (chunks[c].Downloaded = chunks[c].Size)

\* C25: the offsets of .part a range-parallel download writes are those of
\* the chunks' [start, start+downloaded): a worker that has just written a
\* byte (and has yet to record it) wrote it inside [start, end] of its chunk.
C25_WritesInsideChunk ==
    \A w \in Workers :
        workers[w].pc = "update"
            => LET c == workers[w].chunk
                   written == workers[w].offset - 1
               IN chunks[c].Start <= written /\ written <= chunks[c].End

\* C26: once the workers have quit, Download() decides its result in this
\* order: the cancellation error when the context is cancelled; else the first
\* recorded chunk error; else the consistency error when some chunk is not
\* completed; else success, returned with the sidecar deleted. Success is
\* returned only when every chunk is completed.
C26_ResultOrder ==
    [][/\ (mainPc = "check" /\ mainPc' # "check")
            => IF ctxDone THEN result' = Returned(ErrCanceled)
               ELSE IF Len(errors) > 0
               THEN result' = Returned({"chunk download failed"} \cup errors[1])
               ELSE IF \E c \in 1..Len(chunks) : ~chunks[c].Completed
               THEN result' = Returned({"not all chunks completed"})
               ELSE ~result'.done /\ mainPc' = "remove"
       /\ (~result.done /\ result'.done /\ result'.err = Nil)
            => /\ mainPc = "remove"
               /\ sidecar'.state = "absent"
               /\ \A c \in 1..Len(chunks') : chunks'[c].Completed]_vars

\* C26 witness: Download() has returned the cancellation error although chunk
\* errors were recorded and chunks are not completed
C26_Witness ==
    /\ mainPc = "done"
    /\ result = Returned(ErrCanceled)
    /\ Len(errors) > 0
    /\ \E c \in 1..Len(chunks) : ~chunks[c].Completed

\* C27: a chunk is attempted at most maxRetries + 1 = 4 times per run, no
\* attempt follows a terminal error, and chunk.retries is incremented for a
\* failed non-terminal attempt only: the step in which a worker gives a chunk
\* up with a terminal error leaves the chunk's retries as they were.
C27_RetriesCountNonTerminal ==
    [][/\ \A w \in Workers : workers'[w].attempt <= maxRetries
       /\ (Len(errors') > Len(errors)
              /\ isNonRetryableError(errors'[Len(errors')])
              /\ Len(chunks') = Len(chunks))
            => \A c \in 1..Len(chunks) : chunks'[c].Retries = chunks[c].Retries]_vars

\* the invariants of a plan of N bytes: a contiguous partition of [0, N),
\* size = end - start + 1, sizes summing to N, 0 <= downloaded <= size, and
\* completed only with downloaded = size
PlanInvariants(cs, N) ==
    /\ Len(cs) >= 1
    /\ cs[1].Start = 0
    /\ \A i \in 1..(Len(cs) - 1) : cs[i + 1].Start = cs[i].End + 1
    /\ cs[Len(cs)].End = N - 1
    /\ \A i \in 1..Len(cs) :
          /\ cs[i].Size = cs[i].End - cs[i].Start + 1
          /\ 0 <= cs[i].Downloaded /\ cs[i].Downloaded <= cs[i].Size
          /\ cs[i].Completed => cs[i].Downloaded = cs[i].Size
    /\ SumSize(cs) = N

\* C28: the plan of a sidecar is accepted only if the sidecar decodes, its
\* total size is N, its URL is the download's, it is at most 7 days old, it
\* has at least one chunk, and the plan's invariants hold.
C28_AcceptedPlanIsSound ==
    (fnPc = "done" /\ fnIn.fn = "acceptsSidecar" /\ fnOut)
        => /\ fnIn.sc.state = "plan"
           /\ fnIn.sc.TotalSize = TotalSize
           /\ fnIn.sc.URL = ThisURL
           /\ fnIn.sc.Age <= MaxAgeDays
           /\ PlanInvariants(fnIn.sc.Chunks, TotalSize)

FetchesInFlight(i) ==
    Cardinality({w \in DOMAIN hw : hw[w].pc = "fetch" /\ hw[w].index = i})
    + Cardinality({t \in tasks : t.pc = "fetch" /\ t.index = i})
    + (IF readPc.pc = "open" /\ currentIdx - 1 = i THEN 1 ELSE 0)

\* C32: prefetch is de-duplicated: at no time are two fetches of the same
\* segment index in flight (channel-driven prefetch, reader-triggered prefetch
\* and the reader's synchronous fetch included), and no fetch is in flight for
\* a segment whose bytes are cached.
C32_NoDuplicateFetch ==
    \A i \in 0..(NumSegments - 1) :
        /\ FetchesInFlight(i) <= 1
        /\ segments[i + 1].data.ptr => FetchesInFlight(i) = 0

\* =========================================== claims: HLS cancellation
\* C31: once the context is cancelled, no download worker, prefetch task or
\* Read begins a request of a segment (and of its key) or a further turn of a
\* retry loop with its backoff sleep.
C31_NoFetchAfterCancel ==
    [][ctxDone =>
          /\ \A w \in DOMAIN hw : hw'[w].pc = "fetch" => hw'[w] = hw[w]
          /\ \A t \in tasks' : t.pc = "fetch" => t \in tasks
          /\ readPc'.pc = "open" => readPc' = readPc]_vars

\* ========================================= claims: master playlist
\* C35: of a non-empty variant list one variant is always selected: the one of
\* lowest bandwidth when the quality hint is "worst"; a variant whose resolution
\* contains the hint when the hint is another literal than "best" and such a
\* variant exists; otherwise the first variant of the highest bandwidth.
C35_VariantSelection ==
    (fnPc = "done" /\ fnIn.fn = "processMasterPlaylist") =>
        LET vs == fnIn.Variants
            q == fnIn.Quality
            s == fnOut.selected
            matching == {k \in DOMAIN vs : q \in vs[k].Resolution}
        IN /\ s \in DOMAIN vs
           /\ IF q = "worst"
              THEN \A k \in DOMAIN vs : vs[s].Bandwidth <= vs[k].Bandwidth
              ELSE IF q \notin {"", "best"} /\ matching # {}
              THEN s \in matching
              ELSE /\ \A k \in DOMAIN vs : vs[k].Bandwidth <= vs[s].Bandwidth
                   /\ \A k \in 1..(s - 1) : vs[k].Bandwidth < vs[s].Bandwidth

\* ============================================ claims: playlist window
\* the PlaylistFilter entries of the chain filtersForStreams builds
WindowFilters(in) ==
    LET chain == filtersForStreams(in.option, MediaStreams(in))
    IN {chain[k] : k \in {j \in DOMAIN chain : chain[j].kind = "PlaylistFilter"}}

\* C36: when the options set a playlist bound (a value above 0, the default
\* being 0), the window keeps a stream of kind playlist exactly when its id is
\* an integer with id >= start if start is set and id <= end if end is set, and
\* it keeps every stream of another kind.
C36_PlaylistWindow ==
    (/\ fnPc = "done"
     /\ fnIn.fn = "shouldSkipStream"
     /\ (fnIn.option.PlaylistStart > 0 \/ fnIn.option.PlaylistEnd > 0)) =>
        LET o == fnIn.option
            s == fnIn.stream
            id == Atoi(s.ID)
            kept == \A f \in WindowFilters(fnIn) : Filter(f, s)
        IN /\ WindowFilters(fnIn) # {}
           /\ kept = IF s.Type # "playlist" THEN TRUE
                     ELSE /\ id.ok
                          /\ o.PlaylistStart > 0 => id.value >= o.PlaylistStart
                          /\ o.PlaylistEnd > 0 => id.value <= o.PlaylistEnd

\* ============================================= claims: HLS retry loops
\* C33: one consumption of a segment makes at most max(retry_count, 3)
\* requests of the segment and at most as many of its key, on the prefetch
\* path and on the reader's own path alike.
C33_RetryBudget ==
    (fnPc = "done" /\ fnIn.fn = "consumeSegment") =>
        /\ fnOut.seg <= Max(fnIn.RetryCount, MinRetries)
        /\ fnOut.key <= Max(fnIn.RetryCount, MinRetries)

\* the first answer for an encrypted segment arrives and the payload is bad: the
\* key is not 16 bytes long, the IV is invalid, or (where the whole ciphertext
\* is decrypted at once) its length is not a multiple of the block size
BadPayload(in) ==
    /\ in.Key
    /\ in.segFails = 0
    /\ \/ in.keyFails > 0 /\ in.keyErr = {"invalid key length"}
       \/ in.keyFails = 0 /\ in.IV # ""
       \/ in.keyFails = 0 /\ in.IV = "" /\ ~in.aligned /\ in.path = "memory"

\* C34: a bad payload is terminal: the segment fails with the one request of
\* the segment and the one request of the key that revealed it.
C34_BadPayloadTerminal ==
    (fnPc = "done" /\ fnIn.fn = "consumeSegment" /\ BadPayload(fnIn)) =>
        /\ fnOut.err # Nil
        /\ fnOut.seg = 1
        /\ fnOut.key = 1

\* ============================================ claims: HLS output order
\* the segments (1-based) whose bytes have been delivered, in the order of
\* delivery: a payload starts with a byte above 100, padding bytes are at most
\* BlockSize
IsPayloadStart(b) == b > 100
DeliveredSegments ==
    LET starts == SelectSeq(output, IsPayloadStart)
    IN [j \in 1..Len(starts) |-> starts[j] - 100]

\* C40: the bytes delivered are those of the segments 0, 1, ..., k - 1 in
\* order and without a gap: after a Read that failed to open segment i, and at
\* any other time, no bytes of a later segment follow unless every earlier
\* segment has been delivered.
C40_DeliveredIsPrefix ==
    \A j \in 1..Len(DeliveredSegments) : DeliveredSegments[j] = j

\* ============================================ claims: termination
\* every goroutine of the download is gone and Download() has returned
AllStopped ==
    /\ result.done
    /\ \A w \in Workers : workers[w].pc \in {"off", "exit"}
    /\ saverPc \in {"off", "exit"}

\* C37: under fair scheduling, with every request and file write returning, a
\* range-parallel download terminates whatever fails and whenever it is
\* cancelled: every worker exits, the progress saver stops and Download()
\* returns.
C37_DownloadTerminates == <>AllStopped

\* a download that was cancelled after a failed request has stopped, its
\* workers and its saver having run
C37_Witness ==
    /\ AllStopped
    /\ ctxDone
    /\ faults > 0
    /\ saverPc = "exit"
    /\ \A w \in Workers : workers[w].pc = "exit"

\* ========================================= claims: sidecar and .part
\* C38: a download that starts from an accepted sidecar, and in which every
\* request is answered as asked, succeeds only with a .part that holds the
\* origin's byte at every offset, whatever .part was on disk at the start.
C38_ResumeNeedsPartBytes ==
    (Succeeded /\ faults = 0) =>
        \A off \in 0..(TotalSize - 1) : PartByte(off) = OriginByte(off)

\* C39: no stream is finished with a final file that still has the holes of a
\* preallocated .part: the single-stream engine does not take such a .part for
\* complete because its size is N and the resume at offset N is answered 416.
C39_NoRenameOfHoles == finalState # "holes"

============================================================================
